---- MODULE Spec2Model ----
(***************************************************************************)
(* Model of the addris backend: the job service (job_service.py) with its  *)
(* SQLite repository (repository.py), and the geocode resolver             *)
(* (geocoding.py).                                                         *)
(*                                                                         *)
(* Optional values (Python None) are sequences of length at most one:      *)
(* None is <<>>, a present value x is <<x>>.                               *)
(* Confidences are integers in hundredths (1.0 is 100); every value used   *)
(* is a multiple of 4 so that halving and averaging are exact.             *)
(* Exception texts (str(exc)) are non-empty tokens.                        *)
(***************************************************************************)
EXTENDS Integers, Sequences, FiniteSets, TLC

\* ---------------------------------------------------------------- bounds
MaxJobs == 2
MaxLines == 2
MaxTime == 1
MaxCallers == 1
MaxCandidates == 3
MaxOcrLines == 4
MaxStops == 3
MaxUploads == 3
MaxTasks == 2
MaxConcurrent == 4

\* ---------------------------------------------------------------- values
None == <<>>
Some(x) == <<x>>

\* Ids handed out by uuid4 in create_job.
LocalIds == 1..MaxJobs
\* The extract calls, each the name of the file it stores.
Uploads == 1..MaxUploads
\* The tasks of the event loop that run operations of the job service.
Tasks == 1..MaxTasks
\* Id of a record already stored when the service is constructed.
PreId == MaxJobs + 1
\* Id of a record another process sharing jobs.db writes later.
ForeignId == MaxJobs + 2
\* An id no record ever has.
UnknownId == MaxJobs + 3
AllIds == LocalIds \cup {PreId, ForeignId, UnknownId}

Times == 0..MaxTime

Origins == {None, Some(<<10, 20>>)}

\* ------------------------------------------------------------- JobRecord
JobRecord(job_id, now, origin) ==
  [job_id |-> job_id, status |-> "pending", created_at |-> now,
   updated_at |-> now, origin |-> origin, addresses |-> <<>>,
   route |-> <<>>, errors |-> <<>>]

\* JobRecord.to_response: the origin tuple becomes a RouteOrigin only when
\* both coordinates are present.
to_response(r) ==
  [job_id |-> r.job_id, status |-> r.status, created_at |-> r.created_at,
   updated_at |-> r.updated_at, addresses |-> r.addresses, route |-> r.route,
   origin |-> IF r.origin # None
              THEN Some([latitude |-> r.origin[1][1], longitude |-> r.origin[1][2]])
              ELSE None,
   errors |-> r.errors]

\* ------------------------------------------------------------ repository
\* A TEXT column written with str() or isoformat() and read back with UUID(),
\* datetime.fromisoformat().
Text(v) == <<"text", v>>
FromText(text) == text[2]

\* JSON values: null, a number, a string, an object, an array.
JsonNull == <<"null">>
JsonNumber(n) == <<"number", n>>
JsonString(x) == <<"string", x>>
JsonOptionalNumber(v) == IF v = None THEN JsonNull ELSE JsonNumber(v[1])
JsonOptionalString(v) == IF v = None THEN JsonNull ELSE JsonString(v[1])
FromJson(j) == j[2]
FromJsonOptional(j) == IF j[1] = "null" THEN None ELSE Some(j[2])

\* json.dumps of AddressCandidate.model_dump(); the components are a dict of
\* strings (resolved_label being None stands for the key being absent).
candidate_json(c) ==
  <<"object",
    [raw_text |-> JsonString(c.raw_text), confidence |-> JsonNumber(c.confidence),
     parsed |-> IF c.parsed = None THEN JsonNull
                ELSE <<"object",
                       [road |-> JsonString(c.parsed[1].road),
                        resolved_label |-> JsonOptionalString(c.parsed[1].resolved_label)]>>,
     status |-> JsonString(c.status), message |-> JsonOptionalString(c.message),
     latitude |-> JsonOptionalNumber(c.latitude),
     longitude |-> JsonOptionalNumber(c.longitude)]>>

\* AddressCandidate(**item) of a loaded item.
candidate_from_json(j) ==
  [raw_text |-> FromJson(j[2].raw_text), confidence |-> FromJson(j[2].confidence),
   parsed |-> IF j[2].parsed[1] = "null" THEN None
              ELSE Some([road |-> FromJson(j[2].parsed[2].road),
                         resolved_label |->
                           FromJsonOptional(j[2].parsed[2].resolved_label)]),
   status |-> FromJson(j[2].status), message |-> FromJsonOptional(j[2].message),
   latitude |-> FromJsonOptional(j[2].latitude),
   longitude |-> FromJsonOptional(j[2].longitude)]

\* json.dumps of RouteLeg.model_dump(), and RouteLeg(**item).
leg_json(leg) ==
  <<"object", [order |-> JsonNumber(leg.order), label |-> JsonString(leg.label),
               latitude |-> JsonNumber(leg.latitude),
               longitude |-> JsonNumber(leg.longitude)]>>
leg_from_json(j) ==
  [order |-> FromJson(j[2].order), label |-> FromJson(j[2].label),
   latitude |-> FromJson(j[2].latitude), longitude |-> FromJson(j[2].longitude)]

\* json.dumps of a list, its items dumped by Item.
JsonArray(list, Item(_)) == <<"array", [i \in 1..Len(list) |-> Item(list[i])]>>
\* json.loads of a column, its items loaded by Item ("[]" is a non-empty text).
FromJsonArray(j, Item(_)) == [i \in 1..Len(j[2]) |-> Item(j[2][i])]

\* The row JobRepository.upsert writes for a record (lines 54-70).
RowOf(r) ==
  [job_id |-> Text(r.job_id), status |-> r.status,
   created_at |-> Text(r.created_at), updated_at |-> Text(r.updated_at),
   origin_lat |-> IF r.origin # None THEN Some(r.origin[1][1]) ELSE None,
   origin_lon |-> IF r.origin # None THEN Some(r.origin[1][2]) ELSE None,
   addresses_json |-> JsonArray(r.addresses, candidate_json),
   route_json |-> JsonArray(r.route, leg_json),
   errors_json |-> JsonArray(r.errors, JsonString)]

\* _row_to_record losing the errors.
row_to_record_WithoutErrors(row) ==
  [job_id |-> FromText(row.job_id), status |-> row.status,
   created_at |-> FromText(row.created_at),
   updated_at |-> FromText(row.updated_at),
   origin |-> None,
   addresses |-> FromJsonArray(row.addresses_json, candidate_from_json),
   route |-> FromJsonArray(row.route_json, leg_from_json),
   errors |-> <<>>]

\* JobRepository._row_to_record (lines 110-133).
row_to_record(row) ==
  [job_id |-> FromText(row.job_id), status |-> row.status,
   created_at |-> FromText(row.created_at),
   updated_at |-> FromText(row.updated_at),
   origin |-> IF row.origin_lat # None /\ row.origin_lon # None
              THEN Some(<<row.origin_lat[1], row.origin_lon[1]>>)
              ELSE None,
   addresses |-> FromJsonArray(row.addresses_json, candidate_from_json),
   route |-> FromJsonArray(row.route_json, leg_from_json),
   errors |-> FromJsonArray(row.errors_json, FromJson)]

\* A bug: upsert that stores nothing.
upsert_Dropped(t, r) == t

\* JobRepository.upsert on the table t (job_id is the primary key).
upsert(t, r) == [t EXCEPT ![r.job_id] = Some(RowOf(r))]

\* JobRepository.get
repo_get(t, id) == IF t[id] = None THEN None ELSE Some(row_to_record(t[id][1]))

EmptyTable == [id \in AllIds |-> None]

\* A record left in the table by an earlier run of the service.
StoredRecord(id, status, t) ==
  [JobRecord(id, t, None) EXCEPT !.status = status,
     !.errors = IF status = "failed" THEN <<"earlier failure">> ELSE <<>>]

\* ------------------------------------------------------- the job map
\* JobService._jobs is a dict: records in insertion order, one per job_id.
Has(m, id) == \E i \in 1..Len(m) : m[i].job_id = id
IndexOf(m, id) == CHOOSE i \in 1..Len(m) : m[i].job_id = id
MapGet(m, id) == IF Has(m, id) THEN Some(m[IndexOf(m, id)]) ELSE None
MapSet(m, id, r) ==
  IF Has(m, id) THEN [m EXCEPT ![IndexOf(m, id)] = r] ELSE Append(m, r)
Keys(m) == {m[i].job_id : i \in 1..Len(m)}

\* ------------------------------------------------- collaborators' outputs
\* OCR line k of an image, and what the OCR runner can return.
LineConf(k) == CASE k % 3 = 1 -> 140 [] k % 3 = 2 -> 60 [] OTHER -> -20
OcrLine(k) == [text |-> k, confidence |-> LineConf(k)]
OcrOutputs == {[k \in 1..n |-> OcrLine(k)] : n \in 0..MaxLines}

\* What the address parser can return for a text (an exception is the
\* string "raise").
ParsedDict == [road |-> "main st", resolved_label |-> None]
ParserOutputs == {"raise", "none", "dict"}

\* What the geocoder callable can return.
GeoMatch ==
  [latitude |-> Some(37), longitude |-> Some(-122), confidence |-> 80,
   message |-> None, resolved_label |-> Some("1 Main St")]
GeoFail ==
  [latitude |-> None, longitude |-> None, confidence |-> 0,
   message |-> Some("No geocoding candidates"), resolved_label |-> None]
GeoBlank ==
  [latitude |-> None, longitude |-> None, confidence |-> 0,
   message |-> None, resolved_label |-> None]
GeocoderOutputs == {GeoMatch, GeoFail, GeoBlank}
\* The result _process_job builds itself when parsing gave nothing.
Unparsed(msg) ==
  [latitude |-> None, longitude |-> None, confidence |-> 0,
   message |-> Some(msg), resolved_label |-> None]

\* ------------------------------------------------------- geocoding.py
\* A string is a token; a query string is the sequence of the tokens it is
\* the concatenation of, the empty string the empty sequence.
Strip(v) == CASE v = " " -> "" [] v = " Main St " -> "Main St" [] OTHER -> v

\* _base_zip: the five digits of a ZIP or ZIP+4, None for anything else.
base_zip(postcode) ==
  CASE postcode = "62704-1234" -> Some("62704")
    [] postcode = "62704" -> Some("62704")
    [] OTHER -> None

priorities ==
  <<"house_number", "road", "unit", "level", "city", "suburb", "state",
    "postcode", "country">>
\* The keys of a parsed dict that are not in priorities, in dict order.
OtherKeys == <<"po_box">>

RECURSIVE Dedupe(_)
\* dict.fromkeys: first occurrences, order kept.
Dedupe(q) ==
  IF q = <<>> THEN <<>>
  ELSE LET front == Dedupe(SubSeq(q, 1, Len(q) - 1))
       IN IF \E i \in 1..Len(front) : front[i] = q[Len(q)]
          THEN front ELSE Append(front, q[Len(q)])

RECURSIVE Join(_)
\* ", ".join(parts)
Join(parts) ==
  IF parts = <<>> THEN <<>>
  ELSE IF Len(parts) = 1 THEN <<parts[1]>>
  ELSE <<parts[1], ", ">> \o Join(Tail(parts))

\* The values of components under the keys of keyseq that it has.
ValuesAt(components, keyseq) ==
  LET present == SelectSeq(keyseq, LAMBDA k : k \in DOMAIN components)
  IN [i \in 1..Len(present) |-> components[present[i]]]

\* Lines 288-297 (components hold stripped, non-empty values).
build_query(components) ==
  LET parts == ValuesAt(components, priorities)
      all == IF parts = <<>> THEN ValuesAt(components, OtherKeys) ELSE parts
  IN Join(Dedupe(all))

\* Lines 280-284.
Normalized(parsed) ==
  LET keep == {k \in DOMAIN parsed : Strip(parsed[k]) # ""}
  IN [k \in keep |-> Strip(parsed[k])]

\* Lines 267-324.
compose_queries(parsed, raw_text) ==
  LET normalized == Normalized(parsed)
      primary == build_query(normalized)
      raw == IF Strip(raw_text) = "" THEN <<>> ELSE <<Strip(raw_text)>>
      has_postcode == "postcode" \in DOMAIN normalized
      zip == IF has_postcode THEN base_zip(normalized["postcode"]) ELSE None
      zip_alt ==
        IF zip # None /\ zip[1] # normalized["postcode"]
        THEN <<build_query([normalized EXCEPT !["postcode"] = zip[1]])>>
        ELSE <<>>
      zipless ==
        IF has_postcode
        THEN <<build_query([k \in DOMAIN normalized \ {"postcode"} |-> normalized[k]])>>
        ELSE <<>>
      queries == <<primary>> \o zip_alt \o zipless \o <<raw>>
      deduped_queries == Dedupe(SelectSeq(queries, LAMBDA q : q # <<>>))
  IN IF deduped_queries # <<>> THEN deduped_queries ELSE <<raw>>

\* The parsed components and raw text of the calls made of geocode_address:
\* no components; only blank values and a blank text; a road that is also
\* the text; an address with a ZIP+4 and a blank text.
NoComponents == [k \in {} |-> ""]
CallInputs ==
  { <<NoComponents, "Main St">>,
    <<[road |-> " "], " ">>,
    <<[road |-> " Main St "], "Main St">>,
    <<[house_number |-> "123", road |-> "Main St", postcode |-> "62704-1234"], " ">> }

\* The keys _cache can hold.
AllQueries ==
  UNION { {compose_queries(input[1], input[2])[i] :
             i \in 1..Len(compose_queries(input[1], input[2]))} :
          input \in CallInputs }

\* GeocodeResult(None, None, 0.0, message=text)
Failure(text) ==
  [latitude |-> None, longitude |-> None, confidence |-> 0,
   message |-> Some(text), resolved_label |-> None]

\* What one call of the provider (geocoder.geocode in a worker thread) can do:
\* return a location with coordinates and the confidence the provider's raw
\* answer yields (_extract_confidence, in [0,1]), return None, return a
\* location without coordinates, or raise.
ProviderOutcomes ==
  {[kind |-> "match", confidence |-> c] : c \in {0, 48, 100}} \cup
  {[kind |-> k, confidence |-> 0] :
     k \in {"no_match", "no_coordinates", "timeout", "quota", "service_error",
            "unexpected_error"}}

QuotaOutcome == [kind |-> "quota", confidence |-> 0]
MatchOutcome == [kind |-> "match", confidence |-> 100]
NoMatchOutcome == [kind |-> "no_match", confidence |-> 0]

\* _fetch with failure results that carry no message.
fetch_WithoutMessage(outcome) ==
  [raised |-> None,
   result |-> Some([latitude |-> IF outcome.kind = "match" THEN Some(37) ELSE None,
                    longitude |-> IF outcome.kind = "match" THEN Some(-122) ELSE None,
                    confidence |-> outcome.confidence, message |-> None,
                    resolved_label |-> None])]

\* Lines 99-144: what _fetch makes of the provider's outcome: a result, or
\* (raised) an exception that is none of geopy's.
fetch(outcome) ==
  CASE outcome.kind = "match" ->
         [raised |-> None,
          result |-> Some([latitude |-> Some(37), longitude |-> Some(-122),
                           confidence |-> outcome.confidence, message |-> None,
                           resolved_label |-> Some("1 Main St")])]
    [] outcome.kind = "no_match" ->
         [raised |-> None, result |-> Some(Failure("No geocoding candidates"))]
    [] outcome.kind = "no_coordinates" ->
         [raised |-> None, result |-> Some(Failure("Invalid geocoder response"))]
    [] outcome.kind = "timeout" ->
         [raised |-> None, result |-> Some(Failure("Geocoding timed out"))]
    [] outcome.kind = "quota" ->
         [raised |-> None, result |-> Some(Failure("Geocoding quota exceeded"))]
    [] outcome.kind = "service_error" ->
         [raised |-> None, result |-> Some(Failure("service error"))]
    [] OTHER -> [raised |-> Some("unexpected error"), result |-> None]

\* Lines 103-105: _fetch when _create_geocoder raises GeocodeConfigurationError.
ConfigurationFailure == Failure("Unsupported geocoder provider")

Min(a, b) == IF a < b THEN a ELSE b
Max(a, b) == IF a > b THEN a ELSE b

VARIABLES
  run_in_background, \* JobService._run_in_background
  jobs,              \* JobService._jobs
  repo,              \* the jobs table of jobs.db
  clock,             \* the wall clock read by datetime.now
  cpc,               \* per local id: where its create_job call is
  pc,                \* per local id: where its _process_job task is
  ocr_results,       \* per task: local ocr_results
  addresses,         \* per task: local addresses
  geocode_result,    \* per task: local geocode_result of the last iteration
  upsert_raised,     \* per local id: an upsert of its record has raised
  invoked,           \* per local id: the tasks started, OCR and router calls made
  gpc,               \* where the get_job call in flight is
  gid,               \* the job_id that get_job call was given
  stored,            \* its local stored
  settings_valid,    \* the settings name a provider _create_geocoder accepts
  geocoder,          \* geocoding._geocoder
  clients,           \* how many geocoder clients have been constructed
  cache,             \* geocoding._cache
  geo_pc,            \* per caller: where its geocode_address call is
  queries,           \* per call: local queries
  query_index,       \* per call: the position of query in queries
  last_result,       \* per call: local last_result
  provider,          \* per query: the quota errors the provider answers first
  answers,           \* per query: the answer of a provider that never changes it
  applied,           \* the function applied last
  fn_args,           \* the arguments it was applied to
  fn_result,         \* what it returned
  ret,               \* what the step just taken returned to its caller
  uploads_dir,       \* the files of StorageService.uploads_dir
  extract_pc,        \* per extract call: where it is and what its steps did
  lock,              \* the tasks that hold JobService._lock
  lock_pc,           \* per task: the steps of its operation and where it is
  geocoder_lock,     \* the calls that hold geocoding._geocoder_lock
  client_pc          \* per call of _get_geocoder: where it is

vars == <<run_in_background, jobs, repo, clock, cpc, pc, ocr_results,
          addresses, geocode_result, upsert_raised, invoked, gpc, gid, stored,
          settings_valid, geocoder, clients, cache, geo_pc, queries,
          query_index, last_result, provider, answers, applied, fn_args,
          fn_result, ret, uploads_dir, extract_pc, lock, lock_pc,
          geocoder_lock, client_pc>>

\* ret: the operation that returned in this step, the job_id it was about, the
\* value it returned (None when it raised or returned None) and the text of
\* the exception it raised.
Return(op, id, value) == [op |-> op, id |-> id, value |-> value, raised |-> None]
Raise(op, id, text) == [op |-> op, id |-> id, value |-> None, raised |-> Some(text)]
NoReturn == [op |-> "none", id |-> 0, value |-> None, raised |-> None]

\* The table the service finds when it is constructed: empty, or holding the
\* record of an earlier run.
InitialTables ==
  {EmptyTable} \cup
  {upsert(EmptyTable, StoredRecord(PreId, "completed", 0))}

\* JobRepository.list: SELECT * FROM jobs ORDER BY created_at DESC. SQLite
\* leaves the order of rows of equal created_at open: every order is a result.
repo_lists(t) ==
  LET present == {id \in AllIds : t[id] # None}
      n == Cardinality(present)
      orders == {f \in [1..n -> present] :
                   /\ \A i, k \in 1..n : i # k => f[i] # f[k]
                   /\ \A i, k \in 1..n :
                        i < k => FromText(t[f[i]][1].created_at)
                                   >= FromText(t[f[k]][1].created_at)}
  IN {[i \in 1..n |-> row_to_record(t[f[i]][1])] : f \in orders}

\* The list of a table of at most one row.
repo_list(t) == CHOOSE list \in repo_lists(t) : TRUE

\* JobService.__init__ on the table t: the map is loaded from repository.list().
Callers == 1..MaxCallers
\* The geocode_address calls that reach _get_geocoder side by side.
Concurrent == 1..MaxConcurrent

\* A provider whose fixed answer to every query is a match.
AlwaysMatching == answers = [q \in AllQueries |-> MatchOutcome]

\* A provider that answers every query at once.
Unthrottled == provider = [q \in AllQueries |-> 0] /\ AlwaysMatching

\* No function has been applied.
NothingApplied == applied = "none" /\ fn_args = None /\ fn_result = None

\* geocoding.py lines 27-31: the module as imported.
GeocodingLoaded ==
  /\ geocoder = None
  /\ clients = 0
  /\ cache = [q \in AllQueries |-> None]
  /\ geo_pc = [c \in Callers |-> "idle"]
  /\ queries = [c \in Callers |-> <<>>]
  /\ query_index = [c \in Callers |-> 0]
  /\ last_result = [c \in Callers |-> None]
  /\ geocoder_lock = {}
  /\ client_pc = [c \in Concurrent |-> [at |-> "idle", client |-> None]]

\* StorageService.__init__ on a fresh root: an empty uploads directory, no
\* extract call begun.
StorageAtRest ==
  /\ uploads_dir = {}
  /\ extract_pc = [e \in Uploads |->
                     [at |-> "idle", saved |-> "none", processed |-> "none",
                      unlinked |-> "none"]]

\* JobService.__init__ line 52: a lock nobody holds, no operation running.
LockFree ==
  /\ lock = {}
  /\ lock_pc = [t \in Tasks |-> [steps |-> <<>>, at |-> 0]]

Constructed(t) ==
  /\ run_in_background \in BOOLEAN
  /\ repo = t
  /\ jobs = repo_list(t)
  /\ clock = 0
  /\ cpc = [j \in LocalIds |-> "idle"]
  /\ pc = [j \in LocalIds |-> "none"]
  /\ ocr_results = [j \in LocalIds |-> <<>>]
  /\ addresses = [j \in LocalIds |-> <<>>]
  /\ geocode_result = [j \in LocalIds |-> None]
  /\ upsert_raised = [j \in LocalIds |-> FALSE]
  /\ invoked = [j \in LocalIds |-> [tasks |-> 0, ocr |-> 0, router |-> 0]]
  /\ gpc = "idle"
  /\ gid = UnknownId
  /\ stored = None
  /\ ret = NoReturn
  /\ StorageAtRest
  /\ LockFree
  /\ settings_valid = TRUE
  /\ GeocodingLoaded
  /\ Unthrottled
  /\ NothingApplied

\* The service at rest, geocoding.py loaded under settings _create_geocoder
\* accepts or rejects.
ServiceAtRest ==
  /\ run_in_background = TRUE
  /\ repo = EmptyTable
  /\ jobs = repo_list(EmptyTable)
  /\ clock = 0
  /\ cpc = [j \in LocalIds |-> "idle"]
  /\ pc = [j \in LocalIds |-> "none"]
  /\ ocr_results = [j \in LocalIds |-> <<>>]
  /\ addresses = [j \in LocalIds |-> <<>>]
  /\ geocode_result = [j \in LocalIds |-> None]
  /\ upsert_raised = [j \in LocalIds |-> FALSE]
  /\ invoked = [j \in LocalIds |-> [tasks |-> 0, ocr |-> 0, router |-> 0]]
  /\ gpc = "idle"
  /\ gid = UnknownId
  /\ stored = None
  /\ ret = NoReturn
  /\ StorageAtRest
  /\ LockFree

GeoInit ==
  /\ ServiceAtRest
  /\ settings_valid \in BOOLEAN
  /\ GeocodingLoaded
  /\ Unthrottled
  /\ NothingApplied

\* The service constructed on an empty jobs.db.
Init == Constructed(EmptyTable)

\* The service constructed on either table.
QueryInit == \E t \in InitialTables : Constructed(t)

\* The record the map holds for a job that is in it.
Rec(j) == MapGet(jobs, j)[1]

taskVars == <<pc, ocr_results, addresses, geocode_result, invoked>>
getVars == <<gpc, gid, stored>>
jobVars ==
  <<run_in_background, jobs, repo, clock, cpc, taskVars, upsert_raised, getVars>>
geoVars ==
  <<settings_valid, geocoder, clients, cache, geo_pc, queries, query_index,
    last_result>>
pureVars == <<applied, fn_args, fn_result>>
providerVars == <<provider, answers>>
storageVars == <<uploads_dir, extract_pc>>
lockVars == <<lock, lock_pc>>
clientVars == <<geocoder_lock, client_pc>>
\* What the job service leaves alone, and what geocode_address does.
outsideJobs == <<geoVars, providerVars, pureVars, storageVars, lockVars, clientVars>>
outsideGeo == <<providerVars, pureVars, storageVars, lockVars, clientVars>>

\* ------------------------------------------------------------ create_job
\* Lines 64-80: a fresh id (uuid4; ids are taken in increasing order, they are
\* interchangeable), the pending record, and its insertion under the lock.
CreateJobInsert(j, origin, now) ==
  /\ cpc[j] = "idle"
  /\ \A k \in LocalIds : k < j => cpc[k] # "idle"
  /\ now \in {clock, clock + 1} \cap Times
  /\ jobs' = MapSet(jobs, j, JobRecord(j, now, origin))
  /\ clock' = now
  /\ cpc' = [cpc EXCEPT ![j] = "persist"]
  /\ ret' = NoReturn
  /\ UNCHANGED <<run_in_background, repo, taskVars, upsert_raised, getVars>>

\* Lines 84-87 running both branches: a task is created and _process_job is
\* awaited as well.
process_job_started_Twice(counts, j) == [counts EXCEPT ![j].tasks = @ + 2]

\* Lines 84-87: create_task(self._process_job(job_id)), or the await of it.
process_job_started(counts, j) == [counts EXCEPT ![j].tasks = @ + 1]

\* Lines 82-88 in background mode: persist, create_task, return the response.
\* In synchronous mode the call goes on to await _process_job.
CreateJobPersist(j) ==
  /\ cpc[j] = "persist"
  /\ \/ /\ repo' = upsert(repo, Rec(j))
        /\ pc' = [pc EXCEPT ![j] = "scheduled"]
        /\ invoked' = process_job_started(invoked, j)
        /\ IF run_in_background
           THEN /\ cpc' = [cpc EXCEPT ![j] = "returned"]
                /\ ret' = Return("create_job", j, Some(to_response(Rec(j))))
           ELSE /\ cpc' = [cpc EXCEPT ![j] = "awaiting"]
                /\ ret' = NoReturn
        /\ UNCHANGED upsert_raised
     \/ /\ cpc' = [cpc EXCEPT ![j] = "raised"]
        /\ upsert_raised' = [upsert_raised EXCEPT ![j] = TRUE]
        /\ ret' = Raise("create_job", j, "upsert failed")
        /\ UNCHANGED <<repo, pc, invoked>>
  /\ UNCHANGED <<run_in_background, jobs, clock, ocr_results, addresses,
                 geocode_result, getVars>>

\* Lines 87-88 in synchronous mode: _process_job has ended; the response is
\* built from the record as it is now, or the task's exception is raised.
CreateJobReturn(j) ==
  /\ cpc[j] = "awaiting"
  /\ \/ /\ pc[j] = "done"
        /\ cpc' = [cpc EXCEPT ![j] = "returned"]
        /\ ret' = Return("create_job", j, Some(to_response(Rec(j))))
     \/ /\ pc[j] = "crashed"
        /\ cpc' = [cpc EXCEPT ![j] = "raised"]
        /\ ret' = Raise("create_job", j, "upsert failed")
  /\ UNCHANGED <<run_in_background, jobs, repo, clock, taskVars, upsert_raised,
                 getVars>>

\* ----------------------------------------------------------- _process_job
\* Lines 148-155: the OCR confidence, clamped, combined with the geocode
\* result's.
CombinedConfidence(confidence, g) ==
  LET base_confidence == Max(0, Min(100, confidence))
  IN IF g.confidence > 0 THEN Min(100, (base_confidence + g.confidence) \div 2)
     ELSE IF g.message # None THEN Max(0, base_confidence \div 2)
     ELSE base_confidence

\* A bug: a geocode result with a message leaves the candidate pending.
CandidateStatus_NeverFailed(g) ==
  IF g.latitude # None /\ g.longitude # None THEN "validated" ELSE "pending"

\* Lines 157-164.
CandidateStatus(g) ==
  IF g.latitude # None /\ g.longitude # None THEN "validated"
  ELSE IF g.message # None THEN "failed"
  ELSE "pending"

\* Lines 148-180: the AddressCandidate built from an OCR line, what the
\* parser gave (None when it gave nothing or raised) and the geocode result.
BuildCandidate(text, confidence, parsed, g) ==
  LET combined_confidence == CombinedConfidence(confidence, g)
      status == CandidateStatus(g)
      parsed_payload ==
        IF parsed = None THEN None
        ELSE IF g.resolved_label # None /\ parsed[1].resolved_label = None
             THEN Some([parsed[1] EXCEPT !.resolved_label = g.resolved_label])
             ELSE parsed
  IN [raw_text |-> text, confidence |-> combined_confidence,
      parsed |-> parsed_payload, status |-> status,
      message |-> IF status = "failed" THEN g.message ELSE None,
      latitude |-> g.latitude, longitude |-> g.longitude]

\* Lines 183-194: the origin first, then every candidate with coordinates.
RouteInputs(origin, cands) ==
  (IF origin # None THEN <<[label |-> "Origin", latitude |-> Some(origin[1][1]),
                            longitude |-> Some(origin[1][2])]>>
   ELSE <<>>)
  \o SelectSeq([i \in 1..Len(cands) |->
                 [label |-> cands[i].raw_text, latitude |-> cands[i].latitude,
                  longitude |-> cands[i].longitude]],
               LAMBDA n : n.latitude # None /\ n.longitude # None)

\* The router callable: one leg per stop, in the order given.
Router(inputs) ==
  [k \in 1..Len(inputs) |->
     [order |-> k - 1, label |-> inputs[k].label,
      latitude |-> inputs[k].latitude[1], longitude |-> inputs[k].longitude[1]]]

\* Lines 111-116: under the lock, the record becomes processing.
MarkProcessing(m, j, now) ==
  MapSet(m, j, [MapGet(m, j)[1] EXCEPT !.status = "processing", !.updated_at = now])

\* Lines 198-203: under the lock, the results are stored, status completed.
MarkCompleted(m, j, cands, route, now) ==
  MapSet(m, j, [MapGet(m, j)[1] EXCEPT !.addresses = cands, !.route = route,
                                        !.status = "completed", !.updated_at = now])

\* The except clause with one errors list shared by all records.
MarkFailed_SharedErrors(m, j, text, now) ==
  [i \in 1..Len(m) |->
     IF m[i].job_id = j
     THEN [m[i] EXCEPT !.errors = Append(@, text), !.status = "failed",
                       !.updated_at = now]
     ELSE [m[i] EXCEPT !.errors = Append(@, text)]]

\* Lines 206-211: the except clause; under the lock, the message is appended
\* and the record becomes failed.
MarkFailed(m, j, text, now) ==
  MapSet(m, j, [MapGet(m, j)[1] EXCEPT !.errors = Append(@, text),
                                        !.status = "failed", !.updated_at = now])

\* An exception reaches the except clause of line 206 (it runs to its
\* _persist without suspending).
Caught(j, text) ==
  /\ jobs' = MarkFailed(jobs, j, text, clock)
  /\ pc' = [pc EXCEPT ![j] = "persist_failed"]
  /\ ocr_results' = [ocr_results EXCEPT ![j] = <<>>]
  /\ addresses' = [addresses EXCEPT ![j] = <<>>]
  /\ geocode_result' = [geocode_result EXCEPT ![j] = None]

\* Lines 111-116.
ProcessStart(j) ==
  /\ pc[j] = "scheduled"
  /\ Has(jobs, j)
  /\ jobs' = MarkProcessing(jobs, j, clock)
  /\ pc' = [pc EXCEPT ![j] = "persist_processing"]
  /\ ret' = NoReturn
  /\ UNCHANGED <<run_in_background, repo, clock, cpc, ocr_results, addresses,
                 geocode_result, invoked, upsert_raised, getVars>>

\* Line 117, outside the try: an exception of upsert ends the task.
ProcessPersistProcessing(j) ==
  /\ pc[j] = "persist_processing"
  /\ \/ /\ repo' = upsert(repo, Rec(j))
        /\ pc' = [pc EXCEPT ![j] = "ocr"]
        /\ UNCHANGED upsert_raised
     \/ /\ pc' = [pc EXCEPT ![j] = "crashed"]
        /\ upsert_raised' = [upsert_raised EXCEPT ![j] = TRUE]
        /\ UNCHANGED repo
  /\ ret' = NoReturn
  /\ UNCHANGED <<run_in_background, jobs, clock, cpc, ocr_results, addresses,
                 geocode_result, invoked, getVars>>

\* Lines 120-121: the OCR runner returns its lines, or raises.
ProcessOcr(j) ==
  /\ pc[j] = "ocr"
  /\ \/ \E lines \in OcrOutputs :
          /\ ocr_results' = [ocr_results EXCEPT ![j] = lines]
          /\ pc' = [pc EXCEPT ![j] = IF lines = <<>> THEN "route" ELSE "candidates"]
          /\ UNCHANGED jobs
          /\ UNCHANGED <<addresses, geocode_result>>
     \/ Caught(j, "ocr failed")
  /\ invoked' = [invoked EXCEPT ![j].ocr = @ + 1]
  /\ ret' = NoReturn
  /\ UNCHANGED <<run_in_background, repo, clock, cpc, upsert_raised, getVars>>

\* Lines 123-181, one iteration: parse, geocode, build, append.
ProcessCandidate(j) ==
  /\ pc[j] = "candidates"
  /\ LET line == ocr_results[j][Len(addresses[j]) + 1]
         Appended(parsed, g) ==
           /\ geocode_result' = [geocode_result EXCEPT ![j] = Some(g)]
           /\ addresses' = [addresses EXCEPT ![j] =
                  Append(@, BuildCandidate(line.text, line.confidence, parsed, g))]
           /\ pc' = [pc EXCEPT ![j] =
                  IF Len(addresses[j]) + 1 = Len(ocr_results[j])
                  THEN "route" ELSE "candidates"]
           /\ UNCHANGED <<jobs, ocr_results>>
     IN \/ Appended(None, Unparsed("parser failed"))
        \/ Appended(None, Unparsed("Unrecognized address"))
        \/ \E g \in GeocoderOutputs : Appended(Some(ParsedDict), g)
        \/ Caught(j, "geocoder failed")
  /\ ret' = NoReturn
  /\ UNCHANGED invoked
  /\ UNCHANGED <<run_in_background, repo, clock, cpc, upsert_raised, getVars>>

\* Lines 183-203: the router returns and the record is completed, or the
\* router raises.
ProcessRoute(j) ==
  /\ pc[j] = "route"
  /\ \/ /\ jobs' = MarkCompleted(jobs, j, addresses[j],
                      Router(RouteInputs(Rec(j).origin, addresses[j])), clock)
        /\ pc' = [pc EXCEPT ![j] = "persist_completed"]
        /\ ocr_results' = [ocr_results EXCEPT ![j] = <<>>]
        /\ addresses' = [addresses EXCEPT ![j] = <<>>]
        /\ geocode_result' = [geocode_result EXCEPT ![j] = None]
     \/ Caught(j, "router failed")
  /\ invoked' = [invoked EXCEPT ![j].router = @ + 1]
  /\ ret' = NoReturn
  /\ UNCHANGED <<run_in_background, repo, clock, cpc, upsert_raised, getVars>>

\* Line 204, inside the try: an exception of upsert reaches the except clause.
ProcessPersistCompleted(j) ==
  /\ pc[j] = "persist_completed"
  /\ \/ /\ repo' = upsert(repo, Rec(j))
        /\ pc' = [pc EXCEPT ![j] = "done"]
        /\ UNCHANGED <<jobs, upsert_raised, ocr_results, addresses, geocode_result>>
     \/ /\ Caught(j, "upsert failed")
        /\ upsert_raised' = [upsert_raised EXCEPT ![j] = TRUE]
        /\ UNCHANGED repo
  /\ ret' = NoReturn
  /\ UNCHANGED <<run_in_background, clock, cpc, invoked, getVars>>

\* Line 213, inside the except clause: an exception of upsert ends the task.
ProcessPersistFailed(j) ==
  /\ pc[j] = "persist_failed"
  /\ \/ /\ repo' = upsert(repo, Rec(j))
        /\ pc' = [pc EXCEPT ![j] = "done"]
        /\ UNCHANGED upsert_raised
     \/ /\ pc' = [pc EXCEPT ![j] = "crashed"]
        /\ upsert_raised' = [upsert_raised EXCEPT ![j] = TRUE]
        /\ UNCHANGED repo
  /\ ret' = NoReturn
  /\ UNCHANGED <<run_in_background, jobs, clock, cpc, ocr_results, addresses,
                 geocode_result, invoked, getVars>>

\* --------------------------------------------------------------- get_job
\* Lines 91-94: the map is read under the lock; a record found is returned.
\* A caller asks for an id the map has, for the id another process uses, or
\* for an id that does not exist (a local id is known to a caller only once
\* create_job has put it in the map).
GetJobLookup(id) ==
  /\ gpc = "idle"
  /\ id \in Keys(jobs) \cup {ForeignId, UnknownId}
  /\ IF MapGet(jobs, id) # None
     THEN /\ ret' = Return("get_job", id, Some(to_response(MapGet(jobs, id)[1])))
          /\ UNCHANGED getVars
     ELSE /\ gpc' = "repository_get"
          /\ gid' = id
          /\ ret' = NoReturn
          /\ UNCHANGED stored
  /\ UNCHANGED <<run_in_background, jobs, repo, clock, cpc, taskVars, upsert_raised>>

\* Lines 96-101: the repository is read; nothing stored returns None.
GetJobRepositoryGet ==
  /\ gpc = "repository_get"
  /\ LET row == repo_get(repo, gid)
     IN IF row # None
        THEN /\ stored' = row
             /\ gpc' = "cache"
             /\ ret' = NoReturn
        ELSE /\ stored' = None
             /\ gpc' = "idle"
             /\ ret' = Return("get_job", gid, None)
  /\ gid' = IF gpc' = "idle" THEN UnknownId ELSE gid
  /\ UNCHANGED <<run_in_background, jobs, repo, clock, cpc, taskVars,
                 upsert_raised>>

\* A bug: the stored record is returned without being put in the map.
GetJobCache_Uncached ==
  /\ gpc = "cache"
  /\ ret' = Return("get_job", gid, Some(to_response(stored[1])))
  /\ gpc' = "idle"
  /\ stored' = None
  /\ gid' = UnknownId
  /\ UNCHANGED <<run_in_background, jobs, repo, clock, cpc, taskVars, upsert_raised>>

\* Lines 98-100: the stored record is put in the map and returned.
GetJobCache ==
  /\ gpc = "cache"
  /\ jobs' = MapSet(jobs, gid, stored[1])
  /\ ret' = Return("get_job", gid, Some(to_response(stored[1])))
  /\ gpc' = "idle"
  /\ stored' = None
  /\ gid' = UnknownId
  /\ UNCHANGED <<run_in_background, repo, clock, cpc, taskVars, upsert_raised>>

\* ------------------------------------------------------------- list_jobs
\* sorted(values, key=created_at, reverse=True): a stable sort, records of
\* equal created_at keep the order the map has them in.
\* A bug: reverse=True forgotten, the oldest record comes first.
RECURSIVE InsertAsc(_, _)
InsertAsc(sorted, r) ==
  IF sorted = <<>> THEN <<r>>
  ELSE IF Head(sorted).created_at <= r.created_at
       THEN <<Head(sorted)>> \o InsertAsc(Tail(sorted), r)
       ELSE <<r>> \o sorted

RECURSIVE InsertDesc(_, _)
InsertDesc(sorted, r) ==
  IF sorted = <<>> THEN <<r>>
  ELSE IF Head(sorted).created_at >= r.created_at
       THEN <<Head(sorted)>> \o InsertDesc(Tail(sorted), r)
       ELSE <<r>> \o sorted

RECURSIVE SortedDesc(_)
SortedDesc(m) ==
  IF m = <<>> THEN <<>>
  ELSE InsertDesc(SortedDesc(SubSeq(m, 1, Len(m) - 1)), m[Len(m)])

\* Lines 103-108.
ListJobs ==
  /\ LET records == SortedDesc(jobs)
     IN ret' = Return("list_jobs", 0,
                      [i \in 1..Len(records) |-> to_response(records[i])])
  /\ UNCHANGED <<run_in_background, jobs, repo, clock, cpc, taskVars,
                 upsert_raised, getVars>>

\* ------------------------------------------------------------ environment
\* Another process that shares jobs.db stores a record of its own.
ExternalUpsert ==
  /\ repo[ForeignId] = None
  /\ repo' = upsert(repo, StoredRecord(ForeignId, "pending", MaxTime))
  /\ ret' = NoReturn
  /\ UNCHANGED <<run_in_background, jobs, clock, cpc, taskVars, upsert_raised,
                 getVars>>

\* One processing task per job.
ProcessJob(j) ==
  \/ ProcessStart(j)
  \/ ProcessPersistProcessing(j)
  \/ ProcessOcr(j)
  \/ ProcessCandidate(j)
  \/ ProcessRoute(j)
  \/ ProcessPersistCompleted(j)
  \/ ProcessPersistFailed(j)

\* The job lifecycle: concurrent create_job calls and their processing tasks,
\* on a clock that does not advance during the run.  The geocoder of these
\* tasks is the collaborator GeocoderOutputs stands for: the state of
\* geocoding.py stays as loaded.
Next ==
  \/ \E j \in LocalIds, origin \in Origins :
       CreateJobInsert(j, origin, clock) /\ UNCHANGED outsideJobs
  \/ \E j \in LocalIds : CreateJobPersist(j) /\ UNCHANGED outsideJobs
  \/ \E j \in LocalIds : CreateJobReturn(j) /\ UNCHANGED outsideJobs
  \/ \E j \in LocalIds : ProcessJob(j) /\ UNCHANGED outsideJobs

Spec == Init /\ [][Next]_vars

\* The queries: get_job and list_jobs calls next to one job of this service,
\* the record of an earlier run and the record of another process.
QueryNext ==
  \/ \E now \in Times : CreateJobInsert(1, None, now) /\ UNCHANGED outsideJobs
  \/ CreateJobPersist(1) /\ UNCHANGED outsideJobs
  \/ CreateJobReturn(1) /\ UNCHANGED outsideJobs
  \/ ProcessJob(1) /\ UNCHANGED outsideJobs
  \/ \E id \in AllIds : GetJobLookup(id) /\ UNCHANGED outsideJobs
  \/ GetJobRepositoryGet /\ UNCHANGED outsideJobs
  \/ GetJobCache /\ UNCHANGED outsideJobs
  \/ ListJobs /\ UNCHANGED outsideJobs
  \/ ExternalUpsert /\ UNCHANGED outsideJobs

QuerySpec == QueryInit /\ [][QueryNext]_vars

\* -------------------------------------------------------- geocode_address
\* Callers are interchangeable: a call takes the smallest free number.
HasCoordinates(result) == result.latitude # None /\ result.longitude # None

\* The call of caller c is over: its locals are gone.
GeocodeReturn(c, result) ==
  /\ ret' = Return("geocode_address", c, Some(result))
  /\ geo_pc' = [geo_pc EXCEPT ![c] = "idle"]
  /\ queries' = [queries EXCEPT ![c] = <<>>]
  /\ query_index' = [query_index EXCEPT ![c] = 0]
  /\ last_result' = [last_result EXCEPT ![c] = None]

\* The for loop of caller c goes on to the next query.
GeocodeContinue(c) ==
  /\ ret' = NoReturn
  /\ geo_pc' = [geo_pc EXCEPT ![c] = "loop"]
  /\ query_index' = [query_index EXCEPT ![c] = @ + 1]
  /\ UNCHANGED queries

\* Lines 53-57.
GeocodeCall(c, parsed, raw_text) ==
  /\ geo_pc[c] = "idle"
  /\ \A b \in Callers : b < c => geo_pc[b] # "idle"
  /\ IF parsed = NoComponents
     THEN /\ ret' = Return("geocode_address", c,
                           Some(Failure("No address components available")))
          /\ UNCHANGED <<geo_pc, queries, query_index, last_result>>
     ELSE /\ ret' = NoReturn
          /\ geo_pc' = [geo_pc EXCEPT ![c] = "loop"]
          /\ queries' = [queries EXCEPT ![c] = compose_queries(parsed, raw_text)]
          /\ query_index' = [query_index EXCEPT ![c] = 1]
          /\ last_result' = [last_result EXCEPT ![c] = None]
  /\ UNCHANGED <<settings_valid, geocoder, clients, cache, jobVars>>

\* Lines 59-69 and 94-96: the head of the loop, up to the call of _fetch.
GeocodeLookup(c) ==
  /\ geo_pc[c] = "loop"
  /\ IF query_index[c] > Len(queries[c])
     THEN GeocodeReturn(c, IF last_result[c] # None THEN last_result[c][1]
                           ELSE Failure("No geocoding candidates"))
     ELSE LET query == queries[c][query_index[c]]
          IN IF query = <<>>
             THEN GeocodeContinue(c) /\ UNCHANGED last_result
             ELSE IF cache[query] # None
             THEN GeocodeReturn(c, cache[query][1])
             ELSE /\ ret' = NoReturn
                  /\ geo_pc' = [geo_pc EXCEPT ![c] = "fetch"]
                  /\ UNCHANGED <<queries, query_index, last_result>>
  /\ UNCHANGED <<settings_valid, geocoder, clients, cache, jobVars>>

\* Lines 158-164 and 167-208: the client is there, or the settings allow
\* constructing it.
HasClient == geocoder # None \/ settings_valid

\* Lines 71-92: _fetch(query) with the provider's outcome, the except clause,
\* the cache write and the return of a result with coordinates.
GeocodeFetch(c, outcome) ==
  /\ geo_pc[c] = "fetch"
  /\ LET query == queries[c][query_index[c]]
         fetched == IF HasClient THEN fetch(outcome)
                    ELSE [raised |-> None, result |-> Some(ConfigurationFailure)]
     IN /\ IF geocoder = None /\ settings_valid
           THEN /\ clients' = clients + 1
                /\ geocoder' = Some(clients + 1)
           ELSE UNCHANGED <<geocoder, clients>>
        /\ IF fetched.raised # None
           THEN /\ last_result' =
                     [last_result EXCEPT ![c] = Some(Failure(fetched.raised[1]))]
                /\ GeocodeContinue(c)
                /\ UNCHANGED cache
           ELSE /\ cache' = [cache EXCEPT ![query] = fetched.result]
                /\ IF HasCoordinates(fetched.result[1])
                   THEN GeocodeReturn(c, fetched.result[1])
                   ELSE /\ last_result' = [last_result EXCEPT ![c] = fetched.result]
                        /\ GeocodeContinue(c)
  /\ UNCHANGED <<settings_valid, jobVars>>

\* Line 27: an entry older than the ttl, or evicted at maxsize, is gone.
CacheExpire(query) ==
  /\ cache[query] # None
  /\ cache' = [cache EXCEPT ![query] = None]
  /\ ret' = NoReturn
  /\ UNCHANGED <<settings_valid, geocoder, clients, geo_pc, queries,
                 query_index, last_result, jobVars>>

GeoNext ==
  \/ \E c \in Callers, input \in CallInputs :
       GeocodeCall(c, input[1], input[2]) /\ UNCHANGED outsideGeo
  \/ \E c \in Callers : GeocodeLookup(c) /\ UNCHANGED outsideGeo
  \/ \E c \in Callers, outcome \in ProviderOutcomes :
       GeocodeFetch(c, outcome) /\ UNCHANGED outsideGeo
  \/ \E query \in AllQueries : CacheExpire(query) /\ UNCHANGED outsideGeo

GeoSpec == GeoInit /\ [][GeoNext]_vars

\* ------------------------------------------- a provider with a rate limit
MaxQuotaErrors == 1

\* The provider answers a query with MaxQuotaErrors quota errors at most
\* (HTTP 429, geopy's GeocoderQuotaExceeded), then with a match.
ThrottledInit ==
  /\ ServiceAtRest
  /\ settings_valid = TRUE
  /\ GeocodingLoaded
  /\ provider \in [AllQueries -> 0..MaxQuotaErrors]
  /\ AlwaysMatching
  /\ NothingApplied

\* The provider's answer to the query caller c is asking.
ProviderAnswers(c) ==
  /\ geo_pc[c] = "fetch"
  /\ LET query == queries[c][query_index[c]]
     IN IF provider[query] > 0
        THEN /\ GeocodeFetch(c, QuotaOutcome)
             /\ provider' = [provider EXCEPT ![query] = @ - 1]
        ELSE /\ GeocodeFetch(c, MatchOutcome)
             /\ UNCHANGED provider
  /\ UNCHANGED <<answers, pureVars, storageVars, lockVars, clientVars>>

ThrottledNext ==
  \/ \E c \in Callers, input \in CallInputs :
       GeocodeCall(c, input[1], input[2]) /\ UNCHANGED outsideGeo
  \/ \E c \in Callers : GeocodeLookup(c) /\ UNCHANGED outsideGeo
  \/ \E c \in Callers : ProviderAnswers(c)
  \/ \E query \in AllQueries : CacheExpire(query) /\ UNCHANGED outsideGeo

ThrottledSpec == ThrottledInit /\ [][ThrottledNext]_vars

\* ------------------------------------- a provider with fixed answers
MaxCalls == 2

\* What the provider answers a query every time: a match or no match.
FixedOutcomes == {MatchOutcome, NoMatchOutcome}

\* fn_args is the input of the last call and fn_result the results of the
\* calls made with it, one after the other, since _cache last lost an entry.
FixedInit ==
  /\ ServiceAtRest
  /\ settings_valid = TRUE
  /\ GeocodingLoaded
  /\ provider = [q \in AllQueries |-> 0]
  /\ answers \in [AllQueries -> FixedOutcomes]
  /\ applied = "none"
  /\ fn_args = None
  /\ fn_result = <<>>

outsideFixed == <<providerVars, storageVars, lockVars, clientVars>>

\* The result a call returns in this step joins the results recorded.
Recorded(results) ==
  fn_result' = IF ret'.op = "geocode_address" /\ applied' = "geocode_address"
               THEN Append(results, ret'.value[1])
               ELSE results

FixedCall(c, input) ==
  /\ fn_args = Some(input) => Len(fn_result) < MaxCalls
  /\ GeocodeCall(c, input[1], input[2])
  /\ applied' = "geocode_address"
  /\ fn_args' = Some(input)
  /\ Recorded(IF fn_args = Some(input) THEN fn_result ELSE <<>>)
  /\ UNCHANGED outsideFixed

FixedLookup(c) ==
  /\ GeocodeLookup(c)
  /\ UNCHANGED <<applied, fn_args>>
  /\ Recorded(fn_result)
  /\ UNCHANGED outsideFixed

FixedFetch(c) ==
  /\ geo_pc[c] = "fetch"
  /\ GeocodeFetch(c, answers[queries[c][query_index[c]]])
  /\ UNCHANGED <<applied, fn_args>>
  /\ Recorded(fn_result)
  /\ UNCHANGED outsideFixed

\* An entry leaves the cache: the cache lifetime of the calls recorded is
\* over, and a call in flight is not recorded.
FixedExpire(query) ==
  /\ CacheExpire(query)
  /\ applied' = "expired"
  /\ fn_result' = <<>>
  /\ UNCHANGED <<fn_args, outsideFixed>>

FixedNext ==
  \/ \E c \in Callers, input \in CallInputs : FixedCall(c, input)
  \/ \E c \in Callers : FixedLookup(c)
  \/ \E c \in Callers : FixedFetch(c)
  \/ \E query \in AllQueries : FixedExpire(query)

FixedSpec == FixedInit /\ [][FixedNext]_vars

\* ------------------------------------------------- the candidate builders
\* pipeline.py lines 213-245: _build_candidate.
pipeline_build_candidate(text, confidence, g, parsed) ==
  LET base_confidence == Max(0, Min(100, confidence))
      combined_confidence ==
        IF g.confidence > 0
        THEN Min(100, (base_confidence + g.confidence) \div 2)
        ELSE IF g.message # None THEN Max(0, base_confidence \div 2)
        ELSE base_confidence
      status ==
        IF g.latitude # None /\ g.longitude # None
        THEN "validated"
        ELSE IF g.message # None THEN "failed" ELSE "pending"
      parsed_payload ==
        IF parsed # None /\ g.resolved_label # None
           /\ parsed[1].resolved_label = None
        THEN Some([parsed[1] EXCEPT !.resolved_label = g.resolved_label])
        ELSE parsed
  IN [raw_text |-> text, confidence |-> combined_confidence,
      parsed |-> parsed_payload, status |-> status,
      message |-> IF status = "failed" THEN g.message ELSE None,
      latitude |-> g.latitude,
      longitude |-> g.longitude]

\* _build_candidate with the geocoder's label written over the parsed one.
build_candidate_Overwriting(text, confidence, g, parsed) ==
  [raw_text |-> text,
   confidence |-> CombinedConfidence(confidence, g),
   parsed |-> IF g.resolved_label # None
              THEN Some([parsed[1] EXCEPT !.resolved_label = g.resolved_label])
              ELSE parsed,
   status |-> CandidateStatus(g),
   message |-> IF CandidateStatus(g) = "failed"
               THEN g.message ELSE None,
   latitude |-> g.latitude,
   longitude |-> g.longitude]

\* address_service.py lines 283-316: AddressExtractionService._build_candidate
\* (parsed is a dict here: _process_candidate has returned before when the
\* parser or the validator gave none).
build_candidate(text, confidence, g, parsed) ==
  LET base_conf == Max(0, Min(100, confidence))
      combined_conf ==
        IF g.confidence > 0
        THEN Min(100, (base_conf + g.confidence) \div 2)
        ELSE IF g.message # None THEN Max(0, base_conf \div 2)
        ELSE base_conf
      status ==
        IF g.latitude # None /\ g.longitude # None
        THEN "validated"
        ELSE IF g.message # None THEN "failed" ELSE "pending"
      final_parsed ==
        IF g.resolved_label # None /\ parsed[1].resolved_label = None
        THEN Some([parsed[1] EXCEPT !.resolved_label = g.resolved_label])
        ELSE parsed
  IN [raw_text |-> text, confidence |-> combined_conf,
      parsed |-> final_parsed, status |-> status,
      message |-> IF status = "failed" THEN g.message ELSE None,
      latitude |-> g.latitude,
      longitude |-> g.longitude]

\* The OCR confidences (hundredths; OCR engines report values outside [0,1]
\* too), geocode results and parsed components the builders are given.
BuilderConfidences == {-20, 0, 60, 100, 140}
BuilderGeocodeResults ==
  { GeoMatch, GeoFail, GeoBlank,
    [GeoMatch EXCEPT !.confidence = 0],
    [GeoMatch EXCEPT !.message = Some("approximate")],
    [GeoMatch EXCEPT !.longitude = None, !.resolved_label = None],
    [GeoFail EXCEPT !.confidence = 40] }
BuilderParsed ==
  { None, Some(ParsedDict),
    Some([ParsedDict EXCEPT !.resolved_label = Some("Main Street 1")]) }

BuilderInit ==
  /\ ServiceAtRest
  /\ settings_valid = TRUE
  /\ GeocodingLoaded
  /\ Unthrottled
  /\ applied = "none"
  /\ fn_args \in [text : {1}, confidence : BuilderConfidences,
                   geocode_result : BuilderGeocodeResults, parsed : BuilderParsed]
  /\ fn_result = None

\* What a builder leaves alone.
outsideBuilders == <<jobVars, geoVars, providerVars, ret, fn_args, storageVars, lockVars, clientVars>>

\* job_service.py lines 148-180.
ApplyJobService ==
  /\ applied' = "job_service"
  /\ fn_result' = Some(BuildCandidate(fn_args.text, fn_args.confidence,
                                       fn_args.parsed, fn_args.geocode_result))
  /\ UNCHANGED outsideBuilders

ApplyPipeline ==
  /\ applied' = "pipeline"
  /\ fn_result' = Some(pipeline_build_candidate(fn_args.text, fn_args.confidence,
                                                 fn_args.geocode_result, fn_args.parsed))
  /\ UNCHANGED outsideBuilders

ApplyAddressService ==
  /\ fn_args.parsed # None
  /\ applied' = "address_service"
  /\ fn_result' = Some(build_candidate(fn_args.text, fn_args.confidence,
                                        fn_args.geocode_result, fn_args.parsed))
  /\ UNCHANGED outsideBuilders

BuilderNext == ApplyJobService \/ ApplyPipeline \/ ApplyAddressService

BuilderSpec == BuilderInit /\ [][BuilderNext]_vars

\* ------------------------------------------------------ _filter_duplicates
\* A candidate of the extraction service: parsed is the dict of components
\* (a function from the keys it has to their values; _build_candidate always
\* gives a non-empty one).
\* c.lower().strip() of the component values in use.
LowerStrip(v) ==
  CASE v \in {"Main St", "main st ", "MAIN ST"} -> "main st"
    [] v \in {"Oak Ave", "oak ave", "Oak Ave "} -> "oak ave"
    [] OTHER -> v

\* dict.get(key, "")
Get(parsed, key) == IF key \in DOMAIN parsed THEN parsed[key] ELSE ""

\* address_service.py lines 213-225; "|".join is the tuple of the parts.
get_loose_dedupe_key(candidate) ==
  IF DOMAIN candidate.parsed = {} THEN <<candidate.raw_text>>
  ELSE [i \in 1..4 |->
          LowerStrip(Get(candidate.parsed,
                         <<"house_number", "road", "city", "state">>[i]))]

\* Lines 191-197 with the raw text for every label: nothing is the same
\* address as anything else.
label_of_RawText(v) == <<"raw_text", v.raw_text>>

\* Lines 191-197: the identity of a validated candidate.
label_of(v) ==
  IF Get(v.parsed, "resolved_label") # "" THEN <<"label", v.parsed["resolved_label"]>>
  ELSE IF DOMAIN v.parsed # {} THEN <<"items", v.parsed>>
  ELSE <<"raw_text", v.raw_text>>

RECURSIVE InsertByConfidence(_, _)
\* x put in a list sorted by confidence descending, after its equals.
InsertByConfidence(sorted, x) ==
  IF sorted = <<>> THEN <<x>>
  ELSE IF x.confidence > sorted[1].confidence THEN <<x>> \o sorted
  ELSE <<sorted[1]>> \o InsertByConfidence(Tail(sorted), x)

RECURSIVE SortByConfidence(_)
\* Line 187: list.sort(key=confidence, reverse=True), which is stable.
SortByConfidence(list) ==
  IF list = <<>> THEN <<>>
  ELSE InsertByConfidence(SortByConfidence(SubSeq(list, 1, Len(list) - 1)),
                          list[Len(list)])

\* Lines 189-201 losing the best candidate when there are more.
unique_validated_AllButBest(validated) ==
  IF Len(validated) > 1 THEN Tail(validated) ELSE validated

RECURSIVE unique_validated(_)
\* Lines 189-201: the first candidate of every label.
unique_validated(validated) ==
  IF validated = <<>> THEN <<>>
  ELSE LET front == unique_validated(SubSeq(validated, 1, Len(validated) - 1))
           v == validated[Len(validated)]
       IN IF \E i \in 1..Len(front) : label_of(front[i]) = label_of(v)
          THEN front ELSE Append(front, v)

\* Line 206: max(group, key=confidence), the first of the greatest.
best_of(group) ==
  LET i == CHOOSE i \in 1..Len(group) :
             /\ \A k \in 1..Len(group) : group[k].confidence <= group[i].confidence
             /\ \A k \in 1..(i - 1) : group[k].confidence < group[i].confidence
  IN group[i]

\* Lines 178-207: what one group contributes.
filter_group(group) ==
  LET validated == SelectSeq(group, LAMBDA c : c.status = "validated")
  IN IF validated # <<>> THEN unique_validated(SortByConfidence(validated))
     ELSE <<best_of(group)>>

RECURSIVE Concat(_)
Concat(lists) == IF lists = <<>> THEN <<>> ELSE lists[1] \o Concat(Tail(lists))

\* Lines 167-209.
filter_duplicates(candidates) ==
  LET keys == Dedupe([i \in 1..Len(candidates) |-> get_loose_dedupe_key(candidates[i])])
      groups == [k \in 1..Len(keys) |->
                   SelectSeq(candidates, LAMBDA c : get_loose_dedupe_key(c) = keys[k])]
  IN Concat([k \in 1..Len(keys) |-> filter_group(groups[k])])

\* The candidates the lists are made of: their raw_text numbers them.
Candidate(n, status, confidence, parsed) ==
  [raw_text |-> n, confidence |-> confidence, parsed |-> parsed,
   status |-> status,
   message |-> IF status = "failed" THEN Some("No geocoding candidates") ELSE None,
   latitude |-> IF status = "validated" THEN Some(37) ELSE None,
   longitude |-> IF status = "validated" THEN Some(-122) ELSE None]

DedupCandidates ==
  { Candidate(1, "validated", 90, [road |-> "Main St", resolved_label |-> "1 Main St"]),
    Candidate(2, "validated", 70, [road |-> "main st ", resolved_label |-> "1 Main St"]),
    Candidate(3, "validated", 70,
              [road |-> "MAIN ST", unit |-> "2", resolved_label |-> "1 Main St #2"]),
    Candidate(4, "failed", 96, [road |-> "Main St"]),
    Candidate(5, "validated", 80, [road |-> "Main St", unit |-> "3"]),
    Candidate(6, "failed", 40, [road |-> "Oak Ave"]),
    Candidate(7, "pending", 60, [road |-> "oak ave"]),
    Candidate(8, "failed", 60, [road |-> "Oak Ave "]),
    Candidate(9, "failed", 60, [road |-> "Oak Ave", city |-> "Salem"]) }

DedupLists == UNION {[1..n -> DedupCandidates] : n \in 0..MaxCandidates}

DedupInit ==
  /\ ServiceAtRest
  /\ settings_valid = TRUE
  /\ GeocodingLoaded
  /\ Unthrottled
  /\ applied = "none"
  /\ fn_args \in DedupLists
  /\ fn_result = None

\* What a function applied to fn_args leaves alone.
outsideApplied == <<jobVars, geoVars, providerVars, ret, fn_args, storageVars, lockVars, clientVars>>

FilterDuplicates ==
  /\ applied = "none"
  /\ applied' = "filter_duplicates"
  /\ fn_result' = Some(filter_duplicates(fn_args))
  /\ UNCHANGED outsideApplied

\* The step applied to its own output; fn_result keeps both.
FilterDuplicatesAgain ==
  /\ applied = "filter_duplicates"
  /\ applied' = "filter_duplicates twice"
  /\ fn_result' = Some([once |-> fn_result[1],
                         twice |-> filter_duplicates(fn_result[1])])
  /\ UNCHANGED outsideApplied

DedupNext == FilterDuplicates \/ FilterDuplicatesAgain

DedupSpec == DedupInit /\ [][DedupNext]_vars

\* ------------------------------------------------- the text candidates
\* An OCR result is a list of (text, confidence).  A text is the sequence of
\* its tokens, a confidence the fraction num/den (hundredths): the mean of a
\* window is its sum over its size.
LineTexts == <<"line1", "line2", "line3", "line4", "line5", "line6">>
LineConfidences == {0, 50, 90}
Line(k, c) == [text |-> <<LineTexts[k]>>, confidence |-> [num |-> c, den |-> 1]]
OcrResults ==
  UNION { {[k \in 1..n |-> Line(k, cs[k])] : cs \in [1..n -> LineConfidences]} :
          n \in 0..MaxOcrLines }

RECURSIVE JoinSpace(_)
\* " ".join(texts)
JoinSpace(texts) ==
  IF texts = <<>> THEN <<>>
  ELSE IF Len(texts) = 1 THEN texts[1]
  ELSE texts[1] \o <<" ">> \o JoinSpace(Tail(texts))

RECURSIVE SumNum(_)
\* sum(item[1] for item in window)
SumNum(window) ==
  IF window = <<>> THEN 0 ELSE window[1].confidence.num + SumNum(Tail(window))

\* The candidate made of a window: its texts joined, its mean confidence.
Combined(window) ==
  [text |-> JoinSpace([i \in 1..Len(window) |-> window[i].text]),
   confidence |-> [num |-> SumNum(window), den |-> Len(window)]]

\* text.py line 25: for i in range(len(ocr_results) - size + 1).
Windows(results, size) ==
  IF Len(results) < size THEN <<>>
  ELSE [i \in 1..(Len(results) - size + 1) |->
          Combined(SubSeq(results, i, i + size - 1))]

min_window == 2
max_window == 5
full_text_limit == 20

\* text.py lines 6-38, with the default min_window and max_window the
\* extraction service calls it with (address_service.py line 276).
generate_sliding_window_candidates(results) ==
  results
  \o Concat([k \in 1..(max_window - min_window + 1) |->
               Windows(results, min_window + k - 1)])
  \o (IF Len(results) > 1 /\ Len(results) <= full_text_limit
      THEN <<Combined(results)>> ELSE <<>>)

\* pipeline.py lines 166-191.
generate_text_candidates(results) ==
  results \o Windows(results, 2) \o Windows(results, 3)

WindowInit ==
  /\ ServiceAtRest
  /\ settings_valid = TRUE
  /\ GeocodingLoaded
  /\ Unthrottled
  /\ applied = "none"
  /\ fn_args \in OcrResults
  /\ fn_result = None

\* AddressExtractionService._generate_text_candidates.
GenerateSlidingWindowCandidates ==
  /\ applied' = "generate_sliding_window_candidates"
  /\ fn_result' = Some(generate_sliding_window_candidates(fn_args))
  /\ UNCHANGED outsideApplied

GenerateTextCandidates ==
  /\ applied' = "_generate_text_candidates"
  /\ fn_result' = Some(generate_text_candidates(fn_args))
  /\ UNCHANGED outsideApplied

WindowNext == GenerateSlidingWindowCandidates \/ GenerateTextCandidates

WindowSpec == WindowInit /\ [][WindowNext]_vars

\* ------------------------------------------------ validate_parsed_address
\* domain/address.py, which services/parsing.py hands to the extraction
\* service.  Keys and values are tokens; what the regular expressions and
\* the str methods say of a token is tabulated for the tokens in use.
ALLOWED_COMPONENTS ==
  {"house_number", "road", "unit", "level", "staircase", "entrance", "po_box",
   "suburb", "city_district", "city", "state_district", "state", "postcode",
   "country", "country_region", "world_region"}

REQUIRED_COMBINATIONS ==
  { {"house_number", "road"}, {"road", "city"}, {"road", "state"},
    {"road", "postcode"}, {"house_number", "city"}, {"house_number", "postcode"},
    {"po_box", "city"} }

MIN_COMPONENTS == 2

\* component.strip().lower()
KeyOf(component) == IF component = "City " THEN "city" ELSE component
\* _NOISE_PATTERN.search(value)
matches_noise(value) == value \in {"Tracking Rd", "USPS"}
\* any(ch.isdigit() for ch in value)
has_digit(value) == value \in {"12", "555", "66", "02114", "PO Box 7"}
\* any(ch.isalpha() for ch in value)
has_alpha(value) ==
  value \in {"north", "Main St", "Tracking Rd", "USPS", "Boston", "MA", "PO Box 7", "door"}
\* Lines 150-164.
normalize_postcode(postcode) == IF postcode = "02114" THEN Some("02114") ELSE None

\* A raw text: whether _NOISE_PATTERN matches it, whether _PHONE_PATTERN
\* does, and the tokens that are whole words of it outside the phone numbers.
RawText(noise, phones, words) == [noise |-> noise, phones |-> phones, words |-> words]

\* The phone rule left out.
is_part_of_phone_number_Never(house_number, raw_text) == FALSE

\* Lines 167-177.
is_part_of_phone_number(house_number, raw_text) ==
  raw_text.phones /\ house_number \notin raw_text.words

\* Lines 107-133: the test one component has to pass to get into cleaned.
Kept(component, value, raw_text) ==
  LET key == KeyOf(component)
      normalized == Strip(value)
  IN /\ key \in ALLOWED_COMPONENTS
     /\ normalized # ""
     /\ ~matches_noise(normalized)
     /\ key = "house_number" =>
          has_digit(normalized) /\ ~is_part_of_phone_number(normalized, raw_text)
     /\ key = "road" => has_alpha(normalized)
     /\ key = "postcode" => normalize_postcode(normalized) # None

\* Lines 96-147 (no two components of an input have the same key).
validate_parsed_address(parsed, raw_text) ==
  IF DOMAIN parsed = {}
  THEN [is_valid |-> FALSE, reason |-> Some(<<"No address components">>),
        components |-> None]
  ELSE
    LET kept == {c \in DOMAIN parsed : Kept(c, parsed[c], raw_text)}
        cleaned ==
          [key \in {KeyOf(c) : c \in kept} |->
             LET c == CHOOSE c \in kept : KeyOf(c) = key
             IN IF key = "postcode" THEN normalize_postcode(Strip(parsed[c]))[1]
                ELSE Strip(parsed[c])]
        suffix == IF raw_text.noise THEN <<"(looks like a shipping label)">> ELSE <<>>
    IN IF Cardinality(DOMAIN cleaned) < MIN_COMPONENTS
       THEN [is_valid |-> FALSE,
             reason |-> Some(<<"Insufficient address detail">> \o suffix),
             components |-> None]
       ELSE IF ~\E required \in REQUIRED_COMBINATIONS : required \subseteq DOMAIN cleaned
       THEN [is_valid |-> FALSE,
             reason |-> Some(<<"Missing essential address parts">> \o suffix),
             components |-> None]
       ELSE [is_valid |-> TRUE, reason |-> None, components |-> Some(cleaned)]

\* The inputs: for every component, the values it comes with (absent is "-").
ComponentValues ==
  [house_number |-> {"-", "12", "555", "north"},
   road |-> {"-", "Main St", "66", "Tracking Rd"},
   City_ |-> {"-", "Boston", " "},
   postcode |-> {"-", "02114", "!!"},
   po_box |-> {"-", "PO Box 7"},
   state |-> {"-", "MA"},
   near |-> {"-", "door"}]
ComponentName(field) == IF field = "City_" THEN "City " ELSE field
ParsedOf(choice) ==
  LET present == {f \in DOMAIN choice : choice[f] # "-"}
  IN [c \in {ComponentName(f) : f \in present} |->
        choice[CHOOSE f \in present : ComponentName(f) = c]]
ValidatorParsed ==
  {ParsedOf(choice) : choice \in
     [house_number : ComponentValues.house_number, road : ComponentValues.road,
      City_ : ComponentValues.City_, postcode : ComponentValues.postcode,
      po_box : ComponentValues.po_box, state : ComponentValues.state,
      near : ComponentValues.near]}
ValidatorRawTexts ==
  { RawText(FALSE, FALSE, {"12", "555"}), RawText(FALSE, TRUE, {"12"}),
    RawText(TRUE, FALSE, {"12", "555"}), RawText(TRUE, TRUE, {"12"}) }

ValidatorInit ==
  /\ ServiceAtRest
  /\ settings_valid = TRUE
  /\ GeocodingLoaded
  /\ Unthrottled
  /\ applied = "none"
  /\ fn_args \in [parsed : ValidatorParsed, raw_text : ValidatorRawTexts]
  /\ fn_result = None

ValidateParsedAddress ==
  /\ applied = "none"
  /\ applied' = "validate_parsed_address"
  /\ fn_result' = Some(validate_parsed_address(fn_args.parsed, fn_args.raw_text))
  /\ UNCHANGED outsideApplied

ValidatorNext == ValidateParsedAddress

ValidatorSpec == ValidatorInit /\ [][ValidatorNext]_vars

\* ------------------------------------------------------------ compute_route
\* A stop is (label, latitude, longitude); stop i of an input is labelled i.
\* Positions count from 1 here, orders from 0 as in the code.
StopCoordinates == {<<Some(37), Some(-122)>>, <<None, Some(-122)>>, <<Some(37), None>>}
StopLists ==
  UNION { {[i \in 1..n |-> [label |-> i, latitude |-> cs[i][1], longitude |-> cs[i][2]]] :
             cs \in [1..n -> StopCoordinates]} : n \in 0..MaxStops }

\* What get_distance_matrix can give for the nodes (distance.py lines 35-51):
\* meters and seconds between any two of them, symmetric or not.
Matrices ==
  { [distances |-> [i \in 1..MaxStops |-> [j \in 1..MaxStops |->
                      IF i = j THEN 0 ELSE 100 * (IF i < j THEN j - i ELSE i - j)]],
     durations |-> [i \in 1..MaxStops |-> [j \in 1..MaxStops |->
                      IF i = j THEN 0 ELSE 9 * (IF i < j THEN j - i ELSE i - j)]]],
    [distances |-> [i \in 1..MaxStops |-> [j \in 1..MaxStops |->
                      IF i = j THEN 0 ELSE 100 * i + 10 * j]],
     durations |-> [i \in 1..MaxStops |-> [j \in 1..MaxStops |->
                      IF i = j THEN 0 ELSE i + 2 * j]]],
    [distances |-> [i \in 1..MaxStops |-> [j \in 1..MaxStops |-> 0]],
     durations |-> [i \in 1..MaxStops |-> [j \in 1..MaxStops |-> 0]]] }

\* What the OR-Tools solver can give for n nodes and depot 0: no solution, or
\* a tour that starts at the depot and visits every node once.
Solutions(n) ==
  {None} \cup
  {Some(tour) : tour \in {t \in [1..n -> 1..n] :
                             /\ n > 0
                             /\ t[1] = 1
                             /\ \A a, b \in 1..n : t[a] = t[b] => a = b}}

\* optimizer.py lines 38-42.
nodes_of(stops) ==
  SelectSeq(stops, LAMBDA a : a.latitude # None /\ a.longitude # None)

\* The travel fields of the leg at position k of a tour.
leg_distance(tour, k, matrix) ==
  IF k = 1 THEN 0 ELSE matrix.distances[tour[k - 1]][tour[k]]
leg_eta(tour, k, matrix) ==
  IF k = 1 THEN 0 ELSE matrix.durations[tour[k - 1]][tour[k]]

RECURSIVE cumulative_distance(_, _, _)
\* cumulative_distance += distance_meters, after the leg at position k.
cumulative_distance(tour, k, matrix) ==
  IF k = 0 THEN 0
  ELSE cumulative_distance(tour, k - 1, matrix) + leg_distance(tour, k, matrix)

RECURSIVE cumulative_eta(_, _, _)
\* cumulative_eta += eta_seconds, after the leg at position k.
cumulative_eta(tour, k, matrix) ==
  IF k = 0 THEN 0 ELSE cumulative_eta(tour, k - 1, matrix) + leg_eta(tour, k, matrix)

\* The loop with the cumulative fields not accumulated.
route_legs_PerLeg(nodes, tour, matrix) ==
  [k \in 1..Len(tour) |->
     [order |-> k - 1, label |-> nodes[tour[k]].label,
      latitude |-> nodes[tour[k]].latitude[1],
      longitude |-> nodes[tour[k]].longitude[1],
      eta_seconds |-> leg_eta(tour, k, matrix),
      distance_meters |-> leg_distance(tour, k, matrix),
      cumulative_eta_seconds |-> leg_eta(tour, k, matrix),
      cumulative_distance_meters |-> leg_distance(tour, k, matrix)]]

\* optimizer.py lines 100-134 (the tour of the solution) and 144-176
\* (_fallback_route, the tour being the nodes in their order).
route_legs(nodes, tour, matrix) ==
  [k \in 1..Len(tour) |->
     [order |-> k - 1, label |-> nodes[tour[k]].label,
      latitude |-> nodes[tour[k]].latitude[1],
      longitude |-> nodes[tour[k]].longitude[1],
      eta_seconds |-> leg_eta(tour, k, matrix),
      distance_meters |-> leg_distance(tour, k, matrix),
      cumulative_eta_seconds |-> cumulative_eta(tour, k, matrix),
      cumulative_distance_meters |-> cumulative_distance(tour, k, matrix)]]

\* The fallback route from the last node back to the first.
fallback_route_Reversed(nodes, matrix) ==
  route_legs(nodes, [k \in 1..Len(nodes) |-> Len(nodes) - k + 1], matrix)

\* Lines 144-176.
fallback_route(nodes, matrix) ==
  route_legs(nodes, [k \in 1..Len(nodes) |-> k], matrix)

\* Lines 51-70: the route of a single node.
single_leg(nodes) ==
  <<[order |-> 0, label |-> nodes[1].label, latitude |-> nodes[1].latitude[1],
     longitude |-> nodes[1].longitude[1], eta_seconds |-> 0,
     distance_meters |-> 0, cumulative_eta_seconds |-> 0,
     cumulative_distance_meters |-> 0]>>

Returned(legs) == [raised |-> None, legs |-> legs]

\* routing/optimizer.py lines 33-141, with the matrix get_distance_matrix
\* gave and the solution the solver found.
compute_route(stops, matrix, solution) ==
  LET nodes == nodes_of(stops)
  IN IF nodes = <<>> THEN Returned(<<>>)
     ELSE IF Len(nodes) = 1 THEN Returned(single_leg(nodes))
     ELSE IF solution = None THEN Returned(fallback_route(nodes, matrix))
     ELSE Returned(route_legs(nodes, solution[1], matrix))

\* services/routing.py lines 67-171: the same up to the matrix; with two
\* nodes or more it reads matrix.static_durations (line 120, and line 198 in
\* _fallback_route), which DistanceMatrixResult (distance.py lines 27-32, a
\* dataclass with slots) does not have.
services_compute_route(stops, matrix, solution) ==
  LET nodes == nodes_of(stops)
  IN IF nodes = <<>> THEN Returned(<<>>)
     ELSE IF Len(nodes) = 1 THEN Returned(single_leg(nodes))
     ELSE [raised |-> Some("AttributeError"), legs |-> <<>>]

\* A call of compute_route with what it gets from outside: the stops, the
\* matrix get_distance_matrix gives for the nodes and the solver's answer.
RouteCalls ==
  UNION { {[addresses |-> a, matrix |-> m, solution |-> solution] :
             solution \in Solutions(Len(nodes_of(a)))} :
          a \in StopLists, m \in Matrices }

RouteInit ==
  /\ ServiceAtRest
  /\ settings_valid = TRUE
  /\ GeocodingLoaded
  /\ Unthrottled
  /\ applied = "none"
  /\ fn_args \in RouteCalls
  /\ fn_result = None

ComputeRoute ==
  /\ applied' = "optimizer.compute_route"
  /\ fn_result' =
       Some(compute_route(fn_args.addresses, fn_args.matrix, fn_args.solution))
  /\ UNCHANGED outsideApplied

ServicesComputeRoute ==
  /\ applied' = "services.routing.compute_route"
  /\ fn_result' =
       Some(services_compute_route(fn_args.addresses, fn_args.matrix,
                                   fn_args.solution))
  /\ UNCHANGED outsideApplied

RouteNext ==
  \/ ComputeRoute
  \/ ServicesComputeRoute

RouteSpec == RouteInit /\ [][RouteNext]_vars

\* ------------------------------------- one candidate, parser to geocoder
\* What the three candidate loops call for one text, in the order of the
\* calls: the parser, the validator with what it is given, the geocoder with
\* what it is given.
ParserCall == [callee |-> "address_parser", parsed |-> NoComponents]
ValidatorCall(parsed) == [callee |-> "address_validator", parsed |-> parsed]
GeocoderCall(parsed) == [callee |-> "geocoder", parsed |-> parsed]

\* What the parser does with a text: it raises, returns None or returns
\* components.
ParserRaises == [kind |-> "raise", components |-> NoComponents]
ParserNone == [kind |-> "none", components |-> NoComponents]
ParserDict(components) == [kind |-> "dict", components |-> components]
CandidateParses ==
  {ParserRaises, ParserNone,
   ParserDict([house_number |-> "12", road |-> "Main St"]),
   ParserDict([house_number |-> "12", road |-> "Main St", near |-> "door"]),
   ParserDict([house_number |-> "555", road |-> "Main St"]),
   ParserDict([road |-> "Tracking Rd", state |-> "MA"])}

\* The calls after the parser's when the validator (validate_parsed_address,
\* or one that raises) stands before the geocoder: address_service.py lines
\* 241-253 and 259-271, pipeline.py lines 74-118.
validated_calls(parsed, raw_text, validator_raises) ==
  LET validation == validate_parsed_address(parsed, raw_text)
  IN <<ValidatorCall(parsed)>> \o
     (IF validator_raises \/ ~validation.is_valid THEN <<>>
      ELSE <<GeocoderCall(validation.components[1])>>)

\* AddressExtractionService._process_candidate (lines 227-253).
process_candidate(parser, raw_text, validator_raises) ==
  <<ParserCall>> \o
  (IF parser.kind # "dict" THEN <<>>
   ELSE validated_calls(parser.components, raw_text, validator_raises))

\* pipeline.py lines 58-118, one iteration of extract_address_candidates;
\* address_validator is None unless the caller passes one.
extract_iteration(parser, raw_text, has_validator, validator_raises) ==
  <<ParserCall>> \o
  (IF parser.kind # "dict" THEN <<>>
   ELSE IF has_validator
        THEN validated_calls(parser.components, raw_text, validator_raises)
        ELSE <<GeocoderCall(parser.components)>>)

\* job_service.py lines 123-146, one iteration of _process_job: no validator
\* stands between the parser and the geocoder.
process_job_iteration(parser) ==
  <<ParserCall>> \o
  (IF parser.kind # "dict" THEN <<>> ELSE <<GeocoderCall(parser.components)>>)

CandidateInit ==
  /\ ServiceAtRest
  /\ settings_valid = TRUE
  /\ GeocodingLoaded
  /\ Unthrottled
  /\ applied = "none"
  /\ fn_args \in [parser : CandidateParses, raw_text : ValidatorRawTexts,
                   has_validator : BOOLEAN, validator_raises : BOOLEAN]
  /\ fn_result = None

ProcessCandidateOfExtraction ==
  /\ applied' = "AddressExtractionService._process_candidate"
  /\ fn_result' = Some(process_candidate(fn_args.parser, fn_args.raw_text,
                                         fn_args.validator_raises))
  /\ UNCHANGED outsideApplied

ProcessCandidateOfPipeline ==
  /\ applied' = "extract_address_candidates"
  /\ fn_result' = Some(extract_iteration(fn_args.parser, fn_args.raw_text,
                          fn_args.has_validator, fn_args.validator_raises))
  /\ UNCHANGED outsideApplied

ProcessCandidateOfJob ==
  /\ applied' = "JobService._process_job"
  /\ fn_result' = Some(process_job_iteration(fn_args.parser))
  /\ UNCHANGED outsideApplied

CandidateNext ==
  \/ ProcessCandidateOfExtraction
  \/ ProcessCandidateOfPipeline
  \/ ProcessCandidateOfJob

CandidateSpec == CandidateInit /\ [][CandidateNext]_vars

\* ------------------------------------------------- JobService._lock
\* The operations of the job service as the steps they take on the lock, the
\* job map and the repository: "acquire" and "release" are the entry and the
\* exit of an async with self._lock block, "jobs.read" and "jobs.write" an
\* access to self._jobs or to a record in it, "work" the awaits in between.
\* create_job with the upsert moved into the lock block.
create_job_steps_PersistLocked ==
  <<"acquire", "jobs.write", "repository.upsert", "release">>

\* Lines 79-82.
create_job_steps == <<"acquire", "jobs.write", "release", "repository.upsert">>

\* Lines 91-101: the record is in the map; it is not and the repository has
\* none; it is not and the stored one is put in the map.
get_job_steps ==
  { <<"acquire", "jobs.read", "release">>,
    <<"acquire", "jobs.read", "release", "repository.get">>,
    <<"acquire", "jobs.read", "release", "repository.get",
      "acquire", "jobs.write", "release">> }

\* Lines 104-108.
list_jobs_steps == <<"acquire", "jobs.read", "release">>

\* Lines 111-117.
mark_processing_steps ==
  <<"acquire", "jobs.read", "jobs.write", "release", "repository.upsert">>
\* Lines 198-204 and 207-213: the try block's end and the except clause.
mark_finished_steps ==
  <<"acquire", "jobs.read", "jobs.write", "release", "repository.upsert">>

\* _process_job: the job is not in the map; the stages succeed or one raises;
\* the upsert of the completed record raises and the except clause runs.
process_job_steps ==
  { <<"acquire", "jobs.read", "release">>,
    mark_processing_steps \o <<"work">> \o mark_finished_steps,
    mark_processing_steps \o <<"work">> \o mark_finished_steps
      \o mark_finished_steps }

Operations ==
  {create_job_steps, list_jobs_steps} \cup get_job_steps \cup process_job_steps

\* asyncio.Lock.acquire entering whether or not the lock is held.
acquire_Unguarded(holders, t) == TRUE

\* asyncio.Lock.acquire: the task goes on only when nobody holds the lock.
acquire(holders, t) == holders = {}

LockInit ==
  /\ ServiceAtRest
  /\ settings_valid = TRUE
  /\ GeocodingLoaded
  /\ Unthrottled
  /\ NothingApplied

outsideLock == <<jobVars, geoVars, providerVars, pureVars, storageVars, clientVars>>

\* A task begins an operation.
LockCall(t, steps) ==
  /\ lock_pc[t].at = 0
  /\ lock_pc' = [lock_pc EXCEPT ![t] = [steps |-> steps, at |-> 1]]
  /\ ret' = NoReturn
  /\ UNCHANGED <<lock, outsideLock>>

\* The next step of the operation of task t; ret records the step taken and
\* who held the lock when it was.
LockStep(t) ==
  /\ lock_pc[t].at > 0
  /\ LET step == lock_pc[t].steps[lock_pc[t].at]
     IN /\ step = "acquire" => acquire(lock, t)
        /\ lock' = CASE step = "acquire" -> lock \cup {t}
                      [] step = "release" -> lock \ {t}
                      [] OTHER -> lock
        /\ ret' = Return(step, t, Some(lock))
  /\ lock_pc' = [lock_pc EXCEPT ![t].at =
                   IF lock_pc[t].at = Len(lock_pc[t].steps) THEN 0 ELSE @ + 1]
  /\ UNCHANGED outsideLock

LockNext ==
  \/ \E t \in Tasks, steps \in Operations : LockCall(t, steps)
  \/ \E t \in Tasks : LockStep(t)

LockSpec == LockInit /\ [][LockNext]_vars

\* ------------------------------------------------------ _get_geocoder
\* Line 161 taking the client to be missing every time.
needs_client_Always(client) == TRUE

\* Line 161: if _geocoder is None.
needs_client(client) == client = None

ClientInit ==
  /\ ServiceAtRest
  /\ settings_valid \in BOOLEAN
  /\ GeocodingLoaded
  /\ Unthrottled
  /\ NothingApplied

outsideClient ==
  <<jobVars, cache, geo_pc, queries, query_index, last_result, providerVars,
    pureVars, storageVars, lockVars>>

\* Line 160: async with _geocoder_lock, entered when nobody holds the lock.
GetGeocoderAcquire(c) ==
  /\ client_pc[c].at = "idle"
  /\ acquire(geocoder_lock, c)
  /\ geocoder_lock' = geocoder_lock \cup {c}
  /\ client_pc' = [client_pc EXCEPT ![c] = [at |-> "locked", client |-> None]]
  /\ ret' = NoReturn
  /\ UNCHANGED <<settings_valid, geocoder, clients, outsideClient>>

\* Lines 161-164: the client is constructed when there is none, the lock is
\* left and the client returned; _create_geocoder raising
\* GeocodeConfigurationError leaves the lock as well and _geocoder as it was.
GetGeocoderReturn(c) ==
  /\ client_pc[c].at = "locked"
  /\ IF needs_client(geocoder)
     THEN IF settings_valid
          THEN /\ clients' = clients + 1
               /\ geocoder' = Some(clients + 1)
               /\ client_pc' = [client_pc EXCEPT
                    ![c] = [at |-> "using", client |-> Some(clients + 1)]]
               /\ ret' = Return("_get_geocoder", c, Some(clients + 1))
          ELSE /\ client_pc' = [client_pc EXCEPT ![c].at = "idle"]
               /\ ret' = Raise("_get_geocoder", c, "Unsupported geocoder provider")
               /\ UNCHANGED <<geocoder, clients>>
     ELSE /\ client_pc' = [client_pc EXCEPT
               ![c] = [at |-> "using", client |-> geocoder]]
          /\ ret' = Return("_get_geocoder", c, geocoder)
          /\ UNCHANGED <<geocoder, clients>>
  /\ geocoder_lock' = geocoder_lock \ {c}
  /\ UNCHANGED <<settings_valid, outsideClient>>

\* Lines 147-155 of _geocode: the provider is called in a worker thread
\* through the client the call was given, after _geocoder_lock was left.
GetGeocoderUse(c) ==
  /\ client_pc[c].at = "using"
  /\ client_pc' = [client_pc EXCEPT ![c].at = "idle"]
  /\ ret' = NoReturn
  /\ UNCHANGED <<settings_valid, geocoder, clients, geocoder_lock, outsideClient>>

ClientNext ==
  \/ \E c \in Concurrent : GetGeocoderAcquire(c)
  \/ \E c \in Concurrent : GetGeocoderReturn(c)
  \/ \E c \in Concurrent : GetGeocoderUse(c)

ClientSpec == ClientInit /\ [][ClientNext]_vars

\* ------------------------------------------------- services/repository.py
\* The repository on its own: upsert, get and list in any order. fn_args
\* holds, per job_id, the record of the last upsert.
RepoAddresses ==
  <<BuildCandidate(1, LineConf(1), Some(ParsedDict), GeoMatch),
    BuildCandidate(2, LineConf(2), None, Unparsed("Unrecognized address"))>>

RepoRecords ==
  {[JobRecord(id, t, origin) EXCEPT
      !.status = status, !.addresses = cands,
      !.route = IF routed THEN Router(RouteInputs(origin, cands)) ELSE <<>>,
      !.errors = errors] :
     id \in LocalIds, t \in Times, origin \in Origins,
     status \in {"processing", "completed"}, cands \in {<<>>, RepoAddresses},
     routed \in BOOLEAN, errors \in {<<>>, <<"ocr failed">>}}

RepoInit ==
  /\ ServiceAtRest
  /\ settings_valid = TRUE
  /\ GeocodingLoaded
  /\ Unthrottled
  /\ applied = "none"
  /\ fn_args = [id \in LocalIds |-> None]
  /\ fn_result = None

outsideRepository ==
  <<run_in_background, jobs, clock, cpc, taskVars, upsert_raised, getVars,
    geoVars, providerVars, fn_result, storageVars, lockVars, clientVars>>

\* JobRepository.upsert (lines 54-93).
RepositoryUpsert(r) ==
  /\ repo' = upsert(repo, r)
  /\ applied' = IF fn_args[r.job_id] = None THEN "inserted" ELSE "replaced"
  /\ fn_args' = [fn_args EXCEPT ![r.job_id] = Some(r)]
  /\ ret' = Return("repository.upsert", r.job_id, None)
  /\ UNCHANGED outsideRepository

\* JobRepository.get (lines 95-102).
RepositoryGet(id) ==
  /\ ret' = Return("repository.get", id, repo_get(repo, id))
  /\ UNCHANGED <<repo, applied, fn_args, outsideRepository>>

\* JobRepository.list (lines 104-108).
RepositoryList ==
  /\ \E list \in repo_lists(repo) :
       ret' = Return("repository.list", 0, Some(list))
  /\ UNCHANGED <<repo, applied, fn_args, outsideRepository>>

RepoNext ==
  \/ \E r \in RepoRecords : RepositoryUpsert(r)
  \/ \E id \in LocalIds \cup {UnknownId} : RepositoryGet(id)
  \/ RepositoryList

RepoSpec == RepoInit /\ [][RepoNext]_vars

\* ------------------------------------- AddressExtractionService.extract
\* Path.unlink(missing_ok=True) leaving the file where it is.
unlink_Kept(dir, path) == dir

\* Path.unlink(missing_ok=True) when it succeeds: the file is gone, and a file
\* already missing is no error.
unlink(dir, path) == dir \ {path}

\* StorageService.save_bytes: the file is written, or write_bytes raises
\* OSError before the file exists or after it was created.
SaveOutcomes == {"stored", "raised", "raised after create"}
\* _process_image returns the candidates or raises.
ProcessOutcomes == {"returned", "raised"}
\* image_path.unlink removes the file or raises OSError.
UnlinkOutcomes == {"removed", "OSError"}

ExtractInit ==
  /\ ServiceAtRest
  /\ settings_valid = TRUE
  /\ GeocodingLoaded
  /\ Unthrottled
  /\ NothingApplied

outsideExtract == <<jobVars, geoVars, providerVars, pureVars, lockVars, clientVars>>

\* Lines 53-58: read the upload, store it under a fresh name (the call's own
\* number stands for uuid4().hex) and begin _process_image; an OSError of
\* save_bytes leaves extract before the try statement.
ExtractStore(e, saved) ==
  /\ extract_pc[e].at = "idle"
  /\ uploads_dir' = IF saved = "raised" THEN uploads_dir
                     ELSE uploads_dir \cup {e}
  /\ extract_pc' =
       [extract_pc EXCEPT ![e].saved = saved,
          ![e].at = IF saved = "stored" THEN "processing" ELSE "finished"]
  /\ ret' = IF saved = "stored" THEN ret ELSE Raise("extract", e, "OSError")
  /\ UNCHANGED outsideExtract

\* Lines 58-67: _process_image returns or raises, the finally clause unlinks
\* the image and swallows an OSError of unlink, and extract returns what
\* _process_image returned or raises what it raised.
ExtractFinish(e, processed, unlinked) ==
  /\ extract_pc[e].at = "processing"
  /\ uploads_dir' = IF unlinked = "removed" THEN unlink(uploads_dir, e)
                     ELSE uploads_dir
  /\ extract_pc' =
       [extract_pc EXCEPT ![e].at = "finished", ![e].processed = processed,
                          ![e].unlinked = unlinked]
  /\ ret' = IF processed = "returned"
            THEN Return("extract", e, Some("candidates"))
            ELSE Raise("extract", e, "extraction failed")
  /\ UNCHANGED outsideExtract

ExtractNext ==
  \/ \E e \in Uploads, saved \in SaveOutcomes : ExtractStore(e, saved)
  \/ \E e \in Uploads, processed \in ProcessOutcomes,
         unlinked \in UnlinkOutcomes :
       ExtractFinish(e, processed, unlinked)

ExtractSpec == ExtractInit /\ [][ExtractNext]_vars

\* ================================================================ claims
\* The status of the in-memory record of job id, "absent" before it exists.
Status(id) == IF Has(jobs, id) THEN MapGet(jobs, id)[1].status ELSE "absent"
StatusNext(id) == IF Has(jobs', id) THEN MapGet(jobs', id)[1].status ELSE "absent"
Terminal == {"completed", "failed"}
Step(a, b) ==
  \/ a = b
  \/ a = "absent" /\ b = "pending"
  \/ a = "pending" /\ b = "processing"
  \/ a = "processing" /\ b \in Terminal

\* C1: the status of a job's record only changes pending -> processing ->
\* completed or failed, and never changes once it is completed or failed.
C1_StatusLifecycle == [][\A j \in LocalIds : Step(Status(j), StatusNext(j))]_vars

\* The processing tasks keep being run.
FairSpec ==
  Spec /\ \A j \in LocalIds : WF_vars(ProcessJob(j) /\ UNCHANGED outsideJobs)

\* C2: every job create_job has accepted (persisted and scheduled)
\* eventually is completed or failed.
C2_EventuallyTerminal ==
  \A j \in LocalIds : (pc[j] = "scheduled") ~> (Status(j) \in Terminal)

\* C3: no exception leaves _process_job: a task never ends with an exception,
\* and a task that has ended has left its job failed or completed.
C3_NothingEscapes ==
  \A j \in LocalIds :
    /\ pc[j] # "crashed"
    /\ pc[j] = "done" => Status(j) \in Terminal

\* The status the repository holds for a job, "absent" when it holds none.
StoredStatus(id) == IF repo[id] = None THEN "absent" ELSE repo[id][1].status

\* C4: a status the in-memory record takes is in the repository before the
\* job's next status change, and once the task has ended the stored status is
\* the in-memory status.
C4_StoredBeforeNextChange ==
  [][\A j \in LocalIds :
       /\ (Status(j) # "absent" /\ StatusNext(j) # Status(j))
             => StoredStatus(j) = Status(j)
       /\ (pc'[j] \in {"done", "crashed"}) => StoredStatus(j)' = StatusNext(j)]_vars

\* C5 as stated: every response create_job returns has status pending.
C5_ReturnsPending ==
  (ret.op = "create_job" /\ ret.value # None) => ret.value[1].status = "pending"

\* C5, amended: with run_in_background set, create_job returns a pending
\* response once the record is in the map and in the repository and the task
\* is scheduled, before the task has taken a step; without it, create_job
\* returns only after _process_job has ended, with the status it left.
C5_ReturnsPendingInBackground ==
  (ret.op = "create_job" /\ ret.value # None) =>
     IF run_in_background
     THEN /\ ret.value[1].status = "pending"
          /\ MapGet(jobs, ret.id) # None
          /\ to_response(MapGet(jobs, ret.id)[1]) = ret.value[1]
          /\ repo_get(repo, ret.id) = MapGet(jobs, ret.id)
          /\ pc[ret.id] = "scheduled"
     ELSE /\ pc[ret.id] = "done"
          /\ ret.value[1].status \in Terminal
          /\ ret.value[1].status = Status(ret.id)

C5_Witness ==
  /\ ret.op = "create_job" /\ ret.value # None /\ run_in_background
  /\ ret.value[1].status = "pending" /\ pc[ret.id] = "scheduled"

\* C6: get_job answers from the map when the map has the id; otherwise from
\* the repository, and it then puts the record in the map; it returns None
\* only when neither has the id. An id the map has stays in the map, and a
\* call reads the repository only for an id the map does not have.
C6_GetJob ==
  [][/\ ret'.op = "get_job" =>
          IF Has(jobs, ret'.id)
          THEN /\ ret'.value = Some(to_response(MapGet(jobs, ret'.id)[1]))
               /\ gpc = "idle" /\ gpc' = "idle"
          ELSE IF repo[ret'.id] # None
          THEN /\ ret'.value = Some(to_response(row_to_record(repo[ret'.id][1])))
               /\ MapGet(jobs', ret'.id) = Some(row_to_record(repo[ret'.id][1]))
          ELSE ret'.value = None
     /\ \A id \in AllIds : Has(jobs, id) => Has(jobs', id)
     /\ gpc' = "repository_get" => ~Has(jobs, gid')
    ]_vars

C6_Witness ==
  /\ ret.op = "get_job" /\ ret.id = ForeignId /\ ret.value # None
  /\ Has(jobs, ForeignId) /\ gpc = "idle"

\* C7: list_jobs returns every record of the map exactly once, the record
\* loaded at construction and every job create_job has inserted among them,
\* from the most recent created_at to the oldest.
C7_ListJobs ==
  ret.op = "list_jobs" =>
    LET v == ret.value IN
      /\ Len(v) = Len(jobs)
      /\ \A i \in 1..Len(jobs) :
           Cardinality({k \in 1..Len(v) : v[k] = to_response(jobs[i])}) = 1
      /\ \A i, k \in 1..Len(v) : i < k => v[i].created_at >= v[k].created_at
      /\ \A j \in LocalIds : cpc[j] # "idle" => \E k \in 1..Len(v) : v[k].job_id = j
      /\ repo[PreId] # None => \E k \in 1..Len(v) : v[k].job_id = PreId

C7_Witness ==
  /\ ret.op = "list_jobs" /\ Len(ret.value) = 3
  /\ ret.value[1].created_at > ret.value[3].created_at
  /\ jobs[1].created_at < jobs[3].created_at

\* The texts of the exceptions of the OCR runner and of the router.
StageErrors == {"ocr failed", "router failed"}
Elems(q) == {q[i] : i \in 1..Len(q)}

\* C8: when the OCR runner or the router has raised, the job is failed with
\* that one message in errors, addresses and route are empty, the exception
\* does not reach the caller of create_job, and once the task has ended the
\* failed record is the stored record.
C8_StageFailureRecorded ==
  \A j \in LocalIds :
    (Has(jobs, j) /\ Elems(Rec(j).errors) \cap StageErrors # {}) =>
       /\ Rec(j).status = "failed"
       /\ Len(Rec(j).errors) = 1
       /\ Rec(j).addresses = <<>> /\ Rec(j).route = <<>>
       /\ (ret.op = "create_job" /\ ret.id = j /\ ret.raised # None)
             => ret.raised[1] \notin StageErrors
       /\ pc[j] \in {"done", "crashed"} => repo_get(repo, j) = Some(Rec(j))

\* What a candidate must look like when its parsing raised or gave nothing, or
\* when the geocoder gave g, a message without coordinates.
RecordedAsFailed(c) == c.status = "failed" /\ c.message # None
GeocodeFailed(g) == g.message # None /\ (g.latitude = None \/ g.longitude = None)
CandidateMessages ==
  {"parser failed", "Unrecognized address", GeoFail.message[1]}

\* C9: a candidate whose parsing raised or gave nothing, or whose geocoding
\* gave a message without coordinates, is recorded as failed with a message;
\* the loop goes on to the remaining lines (the router is reached with one
\* candidate per OCR line), and such a candidate never makes the job failed:
\* its message never enters the job's errors, and when the router has
\* returned the record is completed and carries it.
C9_CandidateFailureIsLocal ==
  \A j \in LocalIds :
    /\ \A i \in 1..Len(addresses[j]) :
         addresses[j][i].parsed = None => RecordedAsFailed(addresses[j][i])
    /\ (geocode_result[j] # None /\ GeocodeFailed(geocode_result[j][1])) =>
         /\ addresses[j] # <<>>
         /\ RecordedAsFailed(addresses[j][Len(addresses[j])])
         /\ addresses[j][Len(addresses[j])].message = geocode_result[j][1].message
         /\ pc[j] \in {"candidates", "route"}
    /\ pc[j] = "candidates" => Len(addresses[j]) < Len(ocr_results[j])
    /\ pc[j] = "route" => Len(addresses[j]) = Len(ocr_results[j])
    /\ Has(jobs, j) =>
         /\ Elems(Rec(j).errors) \cap CandidateMessages = {}
         /\ \A i \in 1..Len(Rec(j).addresses) :
              Rec(j).addresses[i].parsed = None
                 => RecordedAsFailed(Rec(j).addresses[i])
         /\ pc[j] = "persist_completed" => Rec(j).status = "completed"

C9_Witness ==
  \E j \in LocalIds :
    /\ Has(jobs, j) /\ Rec(j).status = "completed" /\ pc[j] = "done"
    /\ Len(Rec(j).addresses) = 2
    /\ Rec(j).addresses[1].status = "failed" /\ Rec(j).addresses[1].parsed = None
    /\ Rec(j).addresses[2].status = "validated"

\* C10: whatever the provider call does (match, no match, a response without
\* coordinates, timeout, quota exceeded, service error, configuration error,
\* or an exception of another kind), a geocode_address call that ends ends by
\* returning, never by raising, and the GeocodeResult it returns has exactly
\* one of: both latitude and longitude, or a message.  (The text of an
\* exception is taken to be non-empty, as geopy's and the module's own are.)
C10_ExactlyOneOfCoordinatesOrMessage ==
  ret.op = "geocode_address" =>
    /\ ret.raised = None
    /\ ret.value # None
    /\ HasCoordinates(ret.value[1]) # (ret.value[1].message # None)
    /\ (ret.value[1].latitude = None) = (ret.value[1].longitude = None)

\* A call returned coordinates after a timeout and a quota error on the
\* queries before.
C10_Witness ==
  /\ ret.op = "geocode_address"
  /\ HasCoordinates(ret.value[1])
  /\ \E q1, q2 \in AllQueries :
       /\ cache[q1] = Some(Failure("Geocoding timed out"))
       /\ cache[q2] = Some(Failure("Geocoding quota exceeded"))

\* C11: against a provider that answers a query with a quota error (HTTP
\* 429) and with a match when the query is asked again, geocode_address
\* retries the query and returns coordinates, never the quota failure.
C11_QuotaIsRetried ==
  ret.op = "geocode_address" =>
    ret.value[1].message # Some("Geocoding quota exceeded")

\* C12: whichever of the three builders is applied to an OCR confidence c and
\* a geocode result g, the candidate is validated when g has both
\* coordinates, else failed when g has a message, else pending; its
\* confidence is the mean of c clamped to [0,1] and g.confidence when
\* g.confidence > 0, else half the clamped c when g has a message, else the
\* clamped c, and lies in [0,1]; it has a message only when it is failed;
\* and parsed gets g's resolved_label unless it has one already.
Clamped(c) == IF c < 0 THEN 0 ELSE IF c > 100 THEN 100 ELSE c

C12_CandidateRule ==
  applied \in {"job_service", "pipeline", "address_service"} =>
    LET c == Clamped(fn_args.confidence)
        g == fn_args.geocode_result
        built == fn_result[1]
    IN /\ built.status =
            IF g.latitude # None /\ g.longitude # None THEN "validated"
            ELSE IF g.message # None THEN "failed" ELSE "pending"
       /\ 2 * built.confidence =
            IF g.confidence > 0 THEN c + g.confidence
            ELSE IF g.message # None THEN c ELSE 2 * c
       /\ built.confidence \in 0..100
       /\ built.message # None => built.status = "failed" /\ built.message = g.message
       /\ built.raw_text = fn_args.text
       /\ (fn_args.parsed = None) = (built.parsed = None)
       /\ fn_args.parsed # None =>
            /\ built.parsed[1].road = fn_args.parsed[1].road
            /\ built.parsed[1].resolved_label =
                 IF fn_args.parsed[1].resolved_label # None
                 THEN fn_args.parsed[1].resolved_label
                 ELSE g.resolved_label

\* The extraction service built a validated candidate from a result with a
\* label, for components that had a label of their own.
C12_Witness ==
  /\ applied = "address_service"
  /\ fn_result[1].status = "validated"
  /\ fn_args.geocode_result.resolved_label = Some("1 Main St")
  /\ fn_result[1].parsed[1].resolved_label = Some("Main Street 1")
  /\ fn_result[1].confidence = 70

\* The loose key as the claims word it: house_number|road|city|state,
\* lowercased and trimmed, a missing part empty.
LooseKey(c) ==
  <<LowerStrip(Get(c.parsed, "house_number")), LowerStrip(Get(c.parsed, "road")),
    LowerStrip(Get(c.parsed, "city")), LowerStrip(Get(c.parsed, "state"))>>
\* The identity of a validated candidate as the claims word it.
Identity(c) ==
  IF "resolved_label" \in DOMAIN c.parsed THEN <<"label", c.parsed["resolved_label"]>>
  ELSE <<"items", c.parsed>>
Positions(list, P(_)) == {i \in 1..Len(list) : P(list[i])}
Greatest(list, P(_)) ==
  CHOOSE m \in {list[i].confidence : i \in Positions(list, P)} :
    \A i \in Positions(list, P) : list[i].confidence <= m

\* C13: in the output of the dedup step, a loose-key group that had a
\* validated candidate keeps validated candidates only, exactly one for each
\* identity (resolved_label, else the parsed items) among its validated
\* candidates, of the highest confidence of that identity; a group without a
\* validated candidate keeps exactly one candidate, of the highest confidence
\* of the group; nothing else is in the output.
C13_DedupGroups ==
  applied = "filter_duplicates" =>
    LET L == fn_args
        R == fn_result[1]
    IN /\ \A i \in 1..Len(R) : \E k \in 1..Len(L) : R[i] = L[k]
       /\ \A k \in 1..Len(L) :
            LET InGroup(c) == LooseKey(c) = LooseKey(L[k])
                Valid(c) == InGroup(c) /\ c.status = "validated"
                Same(c) == Valid(c) /\ Identity(c) = Identity(L[k])
            IN IF Positions(L, Valid) # {}
               THEN /\ \A i \in Positions(R, InGroup) : R[i].status = "validated"
                    /\ L[k].status = "validated" =>
                         /\ Cardinality(Positions(R, Same)) = 1
                         /\ \A i \in Positions(R, Same) :
                              R[i].confidence = Greatest(L, Same)
               ELSE /\ Cardinality(Positions(R, InGroup)) = 1
                    /\ \A i \in Positions(R, InGroup) :
                         R[i].confidence = Greatest(L, InGroup)

\* Of a group of three, the two validated candidates with different labels
\* survived and the failed candidate of higher confidence did not.
C13_Witness ==
  /\ applied = "filter_duplicates"
  /\ Len(fn_args) = 3
  /\ \E i \in 1..3 : fn_args[i].raw_text = 4
  /\ {fn_result[1][i].raw_text : i \in 1..Len(fn_result[1])} = {1, 3}

\* C14: the dedup step applied to its own output gives the same set of
\* candidates.
Elements(list) == {list[i] : i \in 1..Len(list)}

C14_DedupIdempotent ==
  applied = "filter_duplicates twice" =>
    Elements(fn_result[1].twice) = Elements(fn_result[1].once)

\* The step was applied twice to a list it had shortened to two candidates.
C14_Witness ==
  /\ applied = "filter_duplicates twice"
  /\ Len(fn_args) = 3
  /\ Len(fn_result[1].once) = 2
  /\ Len(fn_result[1].twice) = 2

\* The window of the lines i..i+size-1 as the claim words it.
WindowOf(lines, i, size) ==
  [text |-> JoinSpace([k \in 1..size |-> lines[i + k - 1].text]),
   confidence |-> [num |-> SumNum(SubSeq(lines, i, i + size - 1)), den |-> size]]
WindowsOf(lines, size) ==
  IF Len(lines) < size THEN <<>>
  ELSE [i \in 1..(Len(lines) - size + 1) |-> WindowOf(lines, i, size)]

\* C15: for n OCR lines the generator of text candidates returns exactly the
\* n lines in order, then every pair of adjacent lines, then every triple of
\* adjacent lines (texts joined by one space, the mean of the confidences),
\* and nothing that spans more than 3 lines.
C15_WindowsUpToThree ==
  applied \in {"generate_sliding_window_candidates", "_generate_text_candidates"} =>
    fn_result[1] = fn_args \o WindowsOf(fn_args, 2) \o WindowsOf(fn_args, 3)

\* The keys of the components that survive the cleaning the claim lists:
\* an allow-listed key, a non-empty value without a noise word, a digit in
\* house_number, a letter in road, a postcode that can be normalised.
ListedSurvivors(parsed) ==
  {KeyOf(c) : c \in
     {c \in DOMAIN parsed :
        /\ KeyOf(c) \in ALLOWED_COMPONENTS
        /\ Strip(parsed[c]) # ""
        /\ ~matches_noise(Strip(parsed[c]))
        /\ KeyOf(c) = "house_number" => has_digit(Strip(parsed[c]))
        /\ KeyOf(c) = "road" => has_alpha(Strip(parsed[c]))
        /\ KeyOf(c) = "postcode" => normalize_postcode(Strip(parsed[c])) # None}}
\* The same without a house_number that, the raw text having phone numbers,
\* is no whole word of the text outside them.
Survivors(parsed, raw_text) ==
  ListedSurvivors(parsed) \
    {k \in {"house_number"} :
       \E c \in DOMAIN parsed :
         /\ KeyOf(c) = k
         /\ raw_text.phones
         /\ Strip(parsed[c]) \notin raw_text.words}
HasRequiredPair(keys) == \E pair \in REQUIRED_COMBINATIONS : pair \subseteq keys
\* The noise lexicon matching the raw text shows in the reason only.
NoiseInReasonOnly ==
  fn_result[1].reason # None /\ DOMAIN fn_args.parsed # {} =>
    fn_args.raw_text.noise =
      (fn_result[1].reason[1][Len(fn_result[1].reason[1])]
         = "(looks like a shipping label)")

\* C16: validate_parsed_address returns valid exactly when the components
\* surviving the listed cleaning contain one of the required pairs, and the
\* raw text matching the noise lexicon changes the reason only.
C16_ValidIffRequiredPair ==
  applied = "validate_parsed_address" =>
    /\ fn_result[1].is_valid = HasRequiredPair(ListedSurvivors(fn_args.parsed))
    /\ NoiseInReasonOnly

\* C16 amended: the same with the phone rule among the cleaning: a
\* house_number that only occurs inside a phone number of the raw text does
\* not survive; the valid result carries the surviving components.
C16_ValidIffRequiredPairAfterPhoneRule ==
  applied = "validate_parsed_address" =>
    /\ fn_result[1].is_valid =
         HasRequiredPair(Survivors(fn_args.parsed, fn_args.raw_text))
    /\ fn_result[1].is_valid =>
         DOMAIN fn_result[1].components[1] =
           Survivors(fn_args.parsed, fn_args.raw_text)
    /\ NoiseInReasonOnly

\* A house number and a road were given, the house number was part of a
\* phone number only, and the result is invalid.
C16_Witness ==
  /\ applied = "validate_parsed_address"
  /\ ListedSurvivors(fn_args.parsed) = {"house_number", "road"}
  /\ fn_args.raw_text.phones
  /\ fn_args.raw_text.noise
  /\ ~fn_result[1].is_valid

RECURSIVE SumDistance(_, _)
\* The sum of distance_meters over the legs at positions 1..k.
SumDistance(legs, k) ==
  IF k = 0 THEN 0 ELSE SumDistance(legs, k - 1) + legs[k].distance_meters

RECURSIVE SumEta(_, _)
\* The sum of eta_seconds over the legs at positions 1..k.
SumEta(legs, k) ==
  IF k = 0 THEN 0 ELSE SumEta(legs, k - 1) + legs[k].eta_seconds

\* C17: in every route of one or more legs compute_route returns, the legs
\* are numbered 0, 1, 2, ... in order, leg 0 has zero distance and zero eta,
\* and the cumulative distance and eta of every leg are the sums of the
\* distances and etas of the legs up to it.
C17_RouteLegsAccumulate ==
  (/\ applied \in {"optimizer.compute_route", "services.routing.compute_route"}
   /\ fn_result[1].raised = None
   /\ fn_result[1].legs # <<>>) =>
    LET legs == fn_result[1].legs
    IN /\ legs[1].distance_meters = 0
       /\ legs[1].eta_seconds = 0
       /\ \A k \in 1..Len(legs) :
            /\ legs[k].order = k - 1
            /\ legs[k].cumulative_distance_meters =
                 SumDistance(legs, k)
            /\ legs[k].cumulative_eta_seconds =
                 SumEta(legs, k)

\* The solver's tour of three stops was not the input order, and the last
\* leg's cumulative distance is more than its own.
C17_Witness ==
  /\ applied = "optimizer.compute_route"
  /\ Len(fn_result[1].legs) = 3
  /\ fn_result[1].legs[2].label = 3
  /\ fn_result[1].legs[3].cumulative_distance_meters >
       fn_result[1].legs[3].distance_meters
  /\ fn_result[1].legs[3].distance_meters > 0

\* C18: compute_route returns one leg for every input stop that has both
\* coordinates, each such stop once, none for the others, and leg 0 is the
\* first such stop of the input.
C18_OneLegPerLocatedStop ==
  applied = "optimizer.compute_route" =>
    LET stops == fn_args.addresses
        legs == fn_result[1].legs
        located == {i \in 1..Len(stops) :
                      stops[i].latitude # None /\ stops[i].longitude # None}
    IN /\ fn_result[1].raised = None
       /\ Len(legs) = Cardinality(located)
       /\ \A i \in located :
            Cardinality({k \in 1..Len(legs) : legs[k].label = i}) = 1
       /\ \A k \in 1..Len(legs) :
            /\ legs[k].label \in located
            /\ Some(legs[k].latitude) = stops[legs[k].label].latitude
            /\ Some(legs[k].longitude) = stops[legs[k].label].longitude
       /\ located # {} =>
            legs[1].label = CHOOSE i \in located : \A o \in located : i <= o

\* Of three stops the first had no latitude: the route has two legs and
\* starts at the second stop.
C18_Witness ==
  /\ applied = "optimizer.compute_route"
  /\ Len(fn_args.addresses) = 3
  /\ fn_args.addresses[1].latitude = None
  /\ Len(fn_result[1].legs) = 2
  /\ fn_result[1].legs[1].label = 2

\* C19: after upsert(r), get(r.job_id) returns a record with r's job_id,
\* status, number of addresses, number of route legs and errors; a later
\* upsert of the same job_id replaces the stored record, so list returns
\* exactly one record per job_id upserted, carrying the values of the last
\* upsert, and none for any other id.
SameStored(loaded, r) ==
  /\ loaded.job_id = r.job_id
  /\ loaded.status = r.status
  /\ Len(loaded.addresses) = Len(r.addresses)
  /\ Len(loaded.route) = Len(r.route)
  /\ loaded.errors = r.errors

C19_RepositoryRoundTrip ==
  /\ (ret.op = "repository.get" /\ ret.id \in LocalIds
        /\ fn_args[ret.id] # None)
       => /\ ret.value # None
          /\ SameStored(ret.value[1], fn_args[ret.id][1])
  /\ ret.op = "repository.list"
       => LET list == ret.value[1]
          IN /\ \A id \in LocalIds :
                  Cardinality({i \in 1..Len(list) : list[i].job_id = id})
                    = IF fn_args[id] = None THEN 0 ELSE 1
             /\ \A i \in 1..Len(list) :
                  /\ list[i].job_id \in LocalIds
                  /\ fn_args[list[i].job_id] # None
                  /\ SameStored(list[i], fn_args[list[i].job_id][1])

\* A record with addresses, route legs and errors was upserted over an earlier
\* one, another job was stored too, and list returned both.
C19_Witness ==
  /\ applied = "replaced"
  /\ ret.op = "repository.list"
  /\ Len(ret.value[1]) = 2
  /\ \E i \in 1..2 :
       /\ Len(ret.value[1][i].addresses) = 2
       /\ Len(ret.value[1][i].route) > 0
       /\ ret.value[1][i].errors # <<>>
\* C20: extract removes the image file it stored before it returns, when
\* extraction succeeds and when it raises: the uploads directory holds no file
\* of a finished extract call.
C20_NoFileLeft ==
  \A e \in Uploads : extract_pc[e].at = "finished" => e \notin uploads_dir

\* C20 as the code has it: the file of a finished extract call is gone,
\* whether extraction returned or raised, unless unlink raised OSError or
\* save_bytes raised after creating the file.
C20_NoFileLeftUnlessOSError ==
  \A e \in Uploads :
    extract_pc[e].at = "finished"
      => (e \in uploads_dir
            <=> \/ extract_pc[e].unlinked = "OSError"
                \/ extract_pc[e].saved = "raised after create")

\* One call returned and one raised, both stored a file, and the directory
\* is empty.
C20_Witness ==
  /\ \E e \in Uploads :
       /\ extract_pc[e].at = "finished"
       /\ extract_pc[e].saved = "stored"
       /\ extract_pc[e].processed = "returned"
  /\ \E e \in Uploads :
       /\ extract_pc[e].at = "finished"
       /\ extract_pc[e].saved = "stored"
       /\ extract_pc[e].processed = "raised"
       /\ ret = Raise("extract", e, "extraction failed")
  /\ uploads_dir = {}
\* C21: geocode_address returns the result of the first query for which the
\* provider yields coordinates: when the provider resolves at least one query
\* of the composed list to coordinates, the returned result has coordinates,
\* whatever earlier calls have put in the cache.
ComposedOf(input) ==
  LET composed == compose_queries(input[1], input[2])
  IN {composed[i] : i \in 1..Len(composed)} \ {<<>>}

C21_FirstMatchIsReturned ==
  (/\ ret.op = "geocode_address"
   /\ fn_args # None
   /\ fn_args[1][1] # NoComponents
   /\ \E query \in ComposedOf(fn_args[1]) : answers[query].kind = "match")
    => HasCoordinates(ret.value[1])

\* C29: two calls of geocode_address with the same parsed components and raw
\* text, against a provider that answers each query the same way every time
\* and within the cache lifetime, return the same result.
C29_SameInputSameResult ==
  \A i, k \in 1..Len(fn_result) : fn_result[i] = fn_result[k]
\* C22: the geocoder is called for a candidate only after the validator has
\* accepted the candidate's parsed components, and with the validator's
\* cleaned components, in job processing as in single-image extraction.
GeocodedAfterValidation(calls) ==
  \A i \in 1..Len(calls) :
    calls[i].callee = "geocoder"
      => \E k \in 1..(i - 1) :
           /\ calls[k].callee = "address_validator"
           /\ LET validation ==
                    validate_parsed_address(calls[k].parsed, fn_args.raw_text)
              IN /\ validation.is_valid
                 /\ ~fn_args.validator_raises
                 /\ calls[i].parsed = validation.components[1]

C22_GeocodedAfterValidation ==
  applied \in {"AddressExtractionService._process_candidate",
               "JobService._process_job"}
    => GeocodedAfterValidation(fn_result[1])
\* C23: within one job the OCR runner is called before any text is parsed,
\* the router is called once, after every candidate has been geocoded and the
\* candidate list deduplicated, and the record becomes completed only after
\* the router has returned.
\* address_service.py lines 318-325: the identity deduplication goes by.
DedupeIdentity(c) ==
  IF c.parsed = None THEN <<"raw_text", c.raw_text>>
  ELSE IF c.parsed[1].resolved_label # None
       THEN <<"label", c.parsed[1].resolved_label[1]>>
       ELSE <<"items", c.parsed[1]>>

Deduplicated(list) ==
  \A i, k \in 1..Len(list) :
    i # k => DedupeIdentity(list[i]) # DedupeIdentity(list[k])

C23_StagesInOrder ==
  \A j \in LocalIds :
    /\ pc[j] \in {"none", "scheduled", "persist_processing", "ocr"}
         => ocr_results[j] = <<>> /\ addresses[j] = <<>>
    /\ pc[j] = "route" => Len(addresses[j]) = Len(ocr_results[j])
    /\ (Has(jobs, j) /\ Rec(j).status = "completed")
         => /\ pc[j] \in {"persist_completed", "done"}
            /\ Rec(j).route = Router(RouteInputs(Rec(j).origin, Rec(j).addresses))
            /\ Deduplicated(Rec(j).addresses)
\* C24: under every interleaving of create_job, get_job and list_jobs calls
\* processing is started once per job: a job has one task from the moment
\* create_job has persisted it, never a second one, and the OCR runner and the
\* router are called at most once for it.
C24_ProcessedOnce ==
  \A j \in LocalIds :
    /\ invoked[j].tasks <= 1
    /\ invoked[j].tasks = 1 <=> pc[j] # "none"
    /\ cpc[j] \in {"awaiting", "returned"} => invoked[j].tasks = 1
    /\ invoked[j].ocr <= invoked[j].tasks
    /\ invoked[j].router <= invoked[j].ocr

\* The job has been processed to its end, OCR and router called once, and a
\* get_job call has just returned it.
C24_Witness ==
  /\ pc[1] = "done"
  /\ invoked[1] = [tasks |-> 1, ocr |-> 1, router |-> 1]
  /\ ret.op = "get_job"
  /\ ret.id = 1
  /\ ret.value # None
\* C25: every read and write of the job map happens while the task holds
\* the service lock, at most one task holds the lock at a time, and no task
\* holds the lock while it calls the repository.
C25_MapUnderLockStorageOutside ==
  /\ Cardinality(lock) <= 1
  /\ ret.op \in {"jobs.read", "jobs.write"} => ret.value[1] = {ret.id}
  /\ ret.op \in {"repository.upsert", "repository.get"}
       => ret.id \notin ret.value[1]

\* A task calls the repository, its lock block left, while another task
\* holds the lock.
C25_Witness ==
  /\ ret.op = "repository.upsert"
  /\ ret.value[1] # {}
  /\ ret.id \notin ret.value[1]
\* C26: a step of the processing of job A, whether it leads to completed or
\* to failed, leaves the in-memory record and the stored record of every other
\* job B as they are, under every interleaving of the two tasks.
C26_JobsIndependent ==
  [][\A a, b \in LocalIds :
       (a # b /\ pc'[a] # pc[a])
         => /\ MapGet(jobs', b) = MapGet(jobs, b)
            /\ repo'[b] = repo[b]]_vars

\* Both jobs were processed to the end, one failed and one completed.
C26_Witness ==
  /\ pc = [j \in LocalIds |-> "done"]
  /\ \E a, b \in LocalIds :
       /\ Has(jobs, a) /\ Has(jobs, b)
       /\ Rec(a).status = "failed"
       /\ Rec(b).status = "completed"
       /\ Rec(b).errors = <<>>
       /\ repo[b] # None /\ row_to_record(repo[b][1]).status = "completed"
\* C27: under concurrent geocode_address calls the shared geocoder client is
\* constructed successfully at most once, never by two first uses at a time,
\* and every call gets the one client instance.
C27_ClientConstructedOnce ==
  /\ clients <= 1
  /\ Cardinality(geocoder_lock) <= 1
  /\ \A c \in Concurrent :
       client_pc[c].client # None => client_pc[c].client = geocoder
  /\ \A a, b \in Concurrent :
       (client_pc[a].client # None /\ client_pc[b].client # None)
         => client_pc[a].client = client_pc[b].client

\* Two calls are using the client at the same time while a third, which was
\* given it before, holds the lock again: one construction served them all.
C27_Witness ==
  /\ clients = 1
  /\ \E a, b, c \in Concurrent :
       /\ a # b /\ a # c /\ b # c
       /\ client_pc[a].at = "using" /\ client_pc[a].client = Some(1)
       /\ client_pc[b].at = "using" /\ client_pc[b].client = Some(1)
       /\ client_pc[c].at = "locked"
\* C28: when the solver has no solution for two nodes or more, compute_route
\* returns one leg per node in input order, every leg after the first with
\* the distance and eta of the matrix entry from the node before it, and
\* the cumulative fields as running sums.
C28_FallbackInInputOrder ==
  (/\ applied \in {"optimizer.compute_route", "services.routing.compute_route"}
   /\ fn_args.solution = None
   /\ Len(nodes_of(fn_args.addresses)) >= 2) =>
    LET nodes == nodes_of(fn_args.addresses)
        matrix == fn_args.matrix
        legs == fn_result[1].legs
    IN /\ fn_result[1].raised = None
       /\ Len(legs) = Len(nodes)
       /\ \A k \in 1..Len(legs) :
            /\ legs[k].order = k - 1
            /\ legs[k].label = nodes[k].label
            /\ legs[k].distance_meters =
                 (IF k = 1 THEN 0 ELSE matrix.distances[k - 1][k])
            /\ legs[k].eta_seconds =
                 (IF k = 1 THEN 0 ELSE matrix.durations[k - 1][k])
            /\ legs[k].cumulative_distance_meters = SumDistance(legs, k)
            /\ legs[k].cumulative_eta_seconds = SumEta(legs, k)
\* C30: in every reachable state a record of the job service that is
\* pending, processing or failed has no addresses and no route, a failed
\* record has at least one entry in errors, and a completed record has none.
C30_ContentFollowsStatus ==
  \A j \in LocalIds :
    Has(jobs, j) =>
      /\ Rec(j).status \in {"pending", "processing", "failed"}
           => Rec(j).addresses = <<>> /\ Rec(j).route = <<>>
      /\ Rec(j).status = "failed" => Len(Rec(j).errors) >= 1
      /\ Rec(j).status = "completed" => Rec(j).errors = <<>>
====
